---- MODULE Spec2Model ----
(***************************************************************************)
(* Runner-group lifecycle orchestrator of wafer-bw/go-toolbox (package     *)
(* graceful).  Three generations of the API are modelled side by side:     *)
(*   "v1"  graceful.go 1-119    Group []Runner, Start/Stop/Run(timeout,..) *)
(*   "v2"  v2/graceful.go       Group struct with policy fields            *)
(*   "opt" graceful.go 121-296  Group []Runner, Run(ctx, ...RunOption)     *)
(* A behaviour is one call of Start, Stop or Run on one Group value.       *)
(* Goroutines are interleaved at the granularity of the blocking           *)
(* operations of the code (select, channel send/receive, errgroup.Wait,    *)
(* the runners' own Start/Stop calls).  What a runner's Start or Stop      *)
(* returns, and when, is chosen by the environment.                        *)
(***************************************************************************)
EXTENDS Naturals, Integers, Sequences, FiniteSets, TLC

\* Longest runner list explored when Start or Run is called.
MaxRunners == 2

\* Longest runner list explored when Stop is called on its own.
MaxStopRunners == 3

\* Deepest nesting of Groups explored: 1 is a Group of plain runners.
MaxDepth == 2

----------------------------------------------------------------------------
\* Error values.  Every runner has its own start and its own stop error.
Nil == [k |-> "nil", i |-> 0]
StartError(i) == [k |-> "start", i |-> i]
StopError(i) == [k |-> "stop", i |-> i]
Canceled == [k |-> "context.Canceled", i |-> 0]
DeadlineExceeded == [k |-> "context.DeadlineExceeded", i |-> 0]
CustomCause == [k |-> "custom cause", i |-> 0]
ShutdownTimeoutError == [k |-> "graceful.ShutdownTimeoutError", i |-> 0]

\* ShutdownTimeoutError.Timeout(); context.DeadlineExceeded is a timeout too.
Timeout(e) == e \in {ShutdownTimeoutError, DeadlineExceeded}

\* The Error() strings of the errors that are not a runner's own.
ErrorString(e) ==
    CASE e = ShutdownTimeoutError -> "graceful shutdown timed out"
      [] e = Canceled -> "context canceled"
      [] e = DeadlineExceeded -> "context deadline exceeded"
      [] OTHER -> e.k

\* Stop timeouts: zero (the field or option left unset) and a positive one.
Timeouts == {0, 1}

Signals == {"SIGINT", "SIGTERM"}
SignalSets == {{}, {"SIGTERM"}}

\* Runner lists: TRUE is a runner, FALSE a nil entry.
RunnerLists(max) == UNION {[1..n -> BOOLEAN] : n \in 0..max}

VARIABLES
    api,          \* "v1" | "v2" | "opt"
    entry,        \* the method the caller invokes: "Start" | "Stop" | "Run"
    g,            \* the Group value: runner list and policy fields
    cfg,          \* RunConfig built from the RunOptions (options API)
    ctx,          \* the caller's context: [err, cause]
    notify,       \* signal subscription: "none" | "registered" | "stopped"
    signaled,     \* a relayed signal has reached the subscription
    first,        \* history: the trigger that occurred first, "none" | "error"
                  \* | "signal" | "ctx", while the start phase is pending
    errCtx,       \* context of the start errgroup: [made, cause]
    egErr,        \* first error recorded by the start errgroup
    start,        \* per runner: "none" | "spawned" | "running" | "nil" | "err"
    startCalls,   \* per runner: number of Runner.Start invocations
    seq,          \* the sequentialStart goroutine: [pc, i, in, firstErr]
    pc,           \* position of the calling goroutine
    startRet,     \* value returned by Group.Start
    stop,         \* per runner: "none" | "spawned" | "running" | "nil" | "err"
    stopCalls,    \* per runner: number of Runner.Stop invocations
    stopOut,      \* per runner: the value its Stop returned (nil before)
    stopOrder,    \* history: the runners in the order their Stop returned
    stopLoop,     \* the sequential stop loop: [i, in, firstErr]
    egStopErr,    \* first error recorded by the stop errgroup
    stopRet,      \* value returned by Group.Stop
    stopCtx,      \* the context handed to the runners' Stop: [made, err, cause]
    go,           \* the goroutine Run spawns around g.Start: [pc, err]
    run,          \* Run's locals: [startErr, runErr, trigger]
    stoppingCh,   \* number of times the stopping channel was closed
    runRet        \* value returned by Group.Run

confVars == <<api, entry, g, cfg>>
envVars == <<ctx, notify, signaled, first>>
startVars == <<errCtx, egErr, start, startCalls, seq, startRet>>
stopVars ==
    <<stop, stopCalls, stopOut, stopOrder, stopLoop, egStopErr, stopRet, stopCtx>>
runVars == <<go, run, stoppingCh, runRet>>

\* A Group of the options API used as a Runner of another Group.
VARIABLES
    tree,         \* the parent Group: a tree of groups, runners and nil entries
    nentry,       \* the method called on the parent: "Start" | "Stop"
    npc,          \* position of the caller of the parent's method
    node,         \* per tree node: its Start and Stop calls and error slots
    nret          \* value the parent's method returned

nestVars == <<tree, nentry, npc, node, nret>>

VARIABLES
    round         \* which Run on the same Group value this is: 1, 2, ...

rerunVars == <<round>>

\* The errCh-based API: Group{Runners, errCh}, Start then Wait.
VARIABLES
    wRunners,     \* Group.Runners: TRUE is a runner, FALSE a nil entry
    wSignals,     \* the signals given to Wait
    wPc,          \* the caller: "off" | "idle" | "started" | "waiting" | "returned"
    wStart,       \* per runner: its Start goroutine
    wCtx,         \* the context given to Start and Wait: [err, cause]
    wSignaled,    \* a relayed signal has canceled Wait's signal context
    wFirst,       \* the runner whose Start was the first to return an error, 0 if none
    wRet          \* value Wait returned

waitVars == <<wRunners, wSignals, wPc, wStart, wCtx, wSignaled, wFirst, wRet>>

\* The RunnerType adapter.
VARIABLES
    r,            \* the RunnerType value: [StartFunc, StopFunc]
    rPc,          \* "off" | "idle" | "StartFunc" | "StopFunc" (the function is running)
    rCalls,       \* number of calls of Start, Stop, StartFunc, StopFunc
    rRet          \* the last method that returned and its value: [m, err]

runnerVars == <<r, rPc, rCalls, rRet>>

\* Nested Groups of the v2 API: Stop under each Group's own policy.
VARIABLES
    ptree,        \* the parent Group: runners, nil entries and Groups with flags
    ppc,          \* the caller of the parent's Stop: "off" | "idle" | "stopping" | "returned"
    pnode,        \* per tree node: its Stop call, loop index and error slot
    pret          \* value the parent's Stop returned

policyVars == <<ptree, ppc, pnode, pret>>

\* The memkv Store shared by concurrent callers.
VARIABLES
    newCapacity,  \* the capacity passed to New
    capacity,     \* Store.capacity
    Items,        \* Store.data.Items: the map from key to value
    mu,           \* Store.mu: [w: the caller holding Lock or 0, r: the callers holding RLock]
    call,         \* per caller: the method it is in, its arguments, position and result
    last          \* the last method body that ran on the store, and how many items it removed

kvVars == <<newCapacity, capacity, Items, mu, call, last>>

\* The state of the scenarios other than one call on a flat Group.
otherVars == <<nestVars, rerunVars, waitVars, runnerVars, policyVars, kvVars>>

mainVars == <<confVars, envVars, startVars, stopVars, runVars, pc>>

\* Everything but the nested-group scenario.
notNestVars == <<mainVars, rerunVars, waitVars, runnerVars, policyVars, kvVars>>

\* Everything but the errCh-based scenario.
notWaitVars == <<mainVars, nestVars, rerunVars, runnerVars, policyVars, kvVars>>

\* Everything but the RunnerType scenario.
notRunnerVars == <<mainVars, nestVars, rerunVars, waitVars, policyVars, kvVars>>

\* Everything but the scenario of nested v2 Groups.
notPolicyVars == <<mainVars, nestVars, rerunVars, waitVars, runnerVars, kvVars>>

\* Everything but the memkv scenario.
notKvVars == <<mainVars, nestVars, rerunVars, waitVars, runnerVars, policyVars>>

vars == <<mainVars, otherVars>>

Idx == 1..Len(g.Runners)
Present(i) == i \in Idx /\ g.Runners[i]

\* Mutant of StartsEnded: one ended goroutine is enough.
Mut_StartsEndedAny == \E i \in Idx : start[i] \in {"nil", "err"}

\* Every goroutine spawned for a runner's Start has ended.
StartsEnded == \A i \in Idx : start[i] \notin {"spawned", "running"}

\* The caller has not yet left the select that ends the start phase.
StartPending == pc \in {"idle", "start_select", "start_signal", "run_select"}

\* History only: remember which trigger occurred first.
NoteFirst(t) == first' = IF first = "none" /\ StartPending THEN t ELSE first

----------------------------------------------------------------------------
\* context.Context
Done(c) == c.err # Nil
Background == [err |-> Nil, cause |-> Nil]

\* Mutant of ErrCtxDone: the group's context is done only after every
\* goroutine of the group has ended, as if Start waited for the group.
Mut_ErrCtxDoneAfterAll == errCtx.made /\ errCtx.cause # Nil /\ StartsEnded

\* The start errgroup's context is done once it has a cause.
ErrCtxDone == errCtx.made /\ errCtx.cause # Nil

\* The context the runners' Start calls receive is done: concurrentStart (v2)
\* is given errCtx; v1, sequentialStart and the options API pass ctx itself.
StartCtxDone ==
    IF api = "v2" /\ ~g.StartupSequentially THEN ErrCtxDone ELSE Done(ctx)

\* signal.NotifyContext: derived from ctx, canceled by the first relayed signal.
SignalCtxDone == Done(ctx) \/ signaled

\* signal.Notify relays every signal when it is given an empty list (v1, v2);
\* Run of the options API subscribes only when the list is not empty.
Relayed(s) ==
    IF api = "opt"
    THEN s \in cfg.signals
    ELSE g.ShutdownSignals = {} \/ s \in g.ShutdownSignals

\* Mutant of WithCancelCause: the child of a done parent is canceled with the
\* generic error instead of the parent's cause.
Mut_WithCancelCauseGeneric(parent) ==
    [made |-> TRUE, cause |-> IF parent.err # Nil THEN Canceled ELSE Nil]

\* errgroup.WithContext(ctx): a child of ctx, born done when ctx is done.
WithCancelCause(parent) == [made |-> TRUE, cause |-> parent.cause]

\* Mutant of WithTimeoutCause: a zero duration sets no deadline.
Mut_WithTimeoutCauseNoZero(parent, d, cause) ==
    IF parent.err # Nil
    THEN [made |-> TRUE, err |-> parent.err, cause |-> parent.cause]
    ELSE [made |-> TRUE, err |-> Nil, cause |-> Nil]

\* Mutant of WithTimeoutCause: an expired deadline wins over a done parent.
Mut_WithTimeoutCauseDeadlineFirst(parent, d, cause) ==
    IF d = 0
    THEN [made |-> TRUE, err |-> DeadlineExceeded, cause |-> cause]
    ELSE IF parent.err # Nil
         THEN [made |-> TRUE, err |-> parent.err, cause |-> parent.cause]
         ELSE [made |-> TRUE, err |-> Nil, cause |-> Nil]

\* context.WithTimeoutCause(parent, d, cause): done at birth with the parent's
\* error when the parent is done, and otherwise, when d is not positive, done
\* at birth with context.DeadlineExceeded and the given cause.
WithTimeoutCause(parent, d, cause) ==
    IF parent.err # Nil
    THEN [made |-> TRUE, err |-> parent.err, cause |-> parent.cause]
    ELSE IF d = 0
         THEN [made |-> TRUE, err |-> DeadlineExceeded, cause |-> cause]
         ELSE [made |-> TRUE, err |-> Nil, cause |-> Nil]

\* Mutant of StopTimeoutCause: the stop deadline carries no cause of its own.
Mut_StopTimeoutCausePlain == DeadlineExceeded

\* Mutant of StopTimeoutCause: every API attaches ShutdownTimeoutError.
Mut_StopTimeoutCauseAlways == ShutdownTimeoutError

\* The cause the stop deadline cancels with: ShutdownTimeoutError{} in the v1
\* and v2 API (WithTimeoutCause), none of its own in the options API
\* (WithTimeout).
StopTimeoutCause ==
    IF api = "opt" THEN DeadlineExceeded ELSE ShutdownTimeoutError

\* Stop of the v1 and v2 API: the context its runners get.
StopContext(parent) ==
    WithTimeoutCause(parent, g.ShutdownTimeout, StopTimeoutCause)

\* Mutant of RunStopContext: the stop deadline is counted from a context of
\* its own, so that a done parent leaves the runners the whole timeout.
Mut_RunStopContextGrace(parent) ==
    IF cfg.stopTimeout = 0
    THEN [made |-> TRUE, err |-> parent.err, cause |-> parent.cause]
    ELSE WithTimeoutCause(Background, cfg.stopTimeout, StopTimeoutCause)

\* Mutant of RunStopContext: a zero timeout is not special-cased.
Mut_RunStopContextNoZero(parent) ==
    WithTimeoutCause(parent, cfg.stopTimeout, StopTimeoutCause)

\* Run of the options API: context.WithTimeout(ctx, cfg.stopTimeout), replaced
\* by ctx itself when the timeout is zero.
RunStopContext(parent) ==
    IF cfg.stopTimeout = 0
    THEN [made |-> TRUE, err |-> parent.err, cause |-> parent.cause]
    ELSE WithTimeoutCause(parent, cfg.stopTimeout, StopTimeoutCause)

\* The runners' Stop context is the caller's own context, not a child of it.
StopCtxIsCtx == api = "opt" /\ (entry = "Stop" \/ cfg.stopTimeout = 0)

\* defer cancel(): a child context that is not done becomes canceled.
CancelStopCtx ==
    IF ~StopCtxIsCtx /\ stopCtx.made /\ stopCtx.err = Nil
    THEN [stopCtx EXCEPT !.err = Canceled, !.cause = Canceled]
    ELSE stopCtx

\* What a runner's Stop can return: nil, its own error, or, when its context
\* is done, context.Cause of that context.
StopResults(i) ==
    {Nil, StopError(i)} \cup (IF stopCtx.err # Nil THEN {stopCtx.cause} ELSE {})

\* Mutant of FirstErr: no error is kept.
Mut_FirstErrDropped(firstErr, err) == firstErr

\* Mutant of FirstErr: a later error replaces the one kept.
Mut_LastErr(firstErr, err) == IF err # Nil THEN err ELSE firstErr

\* if err != nil && firstErr == nil { firstErr = err }
FirstErr(firstErr, err) == IF err # Nil /\ firstErr = Nil THEN err ELSE firstErr

\* Mutant of EgRecord: the group's context is canceled when the goroutine
\* returns, error or not, as errgroup does once Wait has returned.
Mut_EgRecordCancelAlways(err) ==
    /\ egErr' = FirstErr(egErr, err)
    /\ errCtx' = IF errCtx.made /\ errCtx.cause = Nil
                 THEN [errCtx EXCEPT !.cause = IF err = Nil THEN Canceled ELSE err]
                 ELSE errCtx

\* errgroup.Group.Go wrapper: errOnce keeps the first non-nil error and cancels
\* the group's context with it as the cause (a no-op on a done context).
EgRecord(err) ==
    /\ egErr' = FirstErr(egErr, err)
    /\ errCtx' = IF err # Nil /\ egErr = Nil /\ errCtx.made /\ errCtx.cause = Nil
                 THEN [errCtx EXCEPT !.cause = err]
                 ELSE errCtx

\* Mutant of CmpOr: the second argument is preferred to the first.
Mut_CmpOrSecondFirst(a, b, c) == IF b # Nil THEN b ELSE IF a # Nil THEN a ELSE c

\* cmp.Or: the first argument that is not the zero value.
CmpOr(a, b, c) == IF a # Nil THEN a ELSE IF b # Nil THEN b ELSE c

----------------------------------------------------------------------------
\* The calls explored: every API, every method, every policy the method reads.
Groups(a, e) ==
    [Runners : RunnerLists(IF e = "Stop" THEN MaxStopRunners ELSE MaxRunners),
     StartupSequentially : IF a = "v2" /\ e # "Stop" THEN BOOLEAN ELSE {FALSE},
     ShutdownSignals : IF a # "opt" /\ e # "Stop" THEN SignalSets ELSE {{}},
     ShutdownTimeout : IF a # "opt" /\ e # "Start" THEN Timeouts ELSE {0},
     ShutdownSequentially : IF a = "v2" /\ e # "Start" THEN BOOLEAN ELSE {FALSE},
     ShutdownReversed : IF a = "v2" /\ e # "Start" THEN BOOLEAN ELSE {FALSE}]

RunConfigs(a, e) ==
    [signals : IF a = "opt" /\ e = "Run" THEN SignalSets ELSE {{}},
     stopTimeout : IF a = "opt" /\ e = "Run" THEN Timeouts ELSE {0},
     stoppingCh : IF a = "opt" /\ e = "Run" THEN BOOLEAN ELSE {FALSE}]

MainInit ==
    /\ api \in {"v1", "v2", "opt"}
    /\ entry \in {"Start", "Stop", "Run"}
    /\ g \in Groups(api, entry)
    /\ cfg \in RunConfigs(api, entry)
    /\ ctx = Background
    /\ notify = "none"
    /\ signaled = FALSE
    /\ first = "none"
    /\ errCtx = [made |-> FALSE, cause |-> Nil]
    /\ egErr = Nil
    /\ start = [i \in Idx |-> "none"]
    /\ startCalls = [i \in Idx |-> 0]
    /\ seq = [pc |-> "none", i |-> 0, in |-> FALSE, firstErr |-> Nil]
    /\ pc = "idle"
    /\ startRet = Nil
    /\ stop = [i \in Idx |-> "none"]
    /\ stopCalls = [i \in Idx |-> 0]
    /\ stopOut = [i \in Idx |-> Nil]
    /\ stopOrder = << >>
    /\ stopLoop = [i |-> 0, in |-> FALSE, firstErr |-> Nil]
    /\ egStopErr = Nil
    /\ stopRet = Nil
    /\ stopCtx = [made |-> FALSE, err |-> Nil, cause |-> Nil]
    /\ go = [pc |-> "none", err |-> Nil]
    /\ run = [startErr |-> Nil, runErr |-> Nil, trigger |-> "none"]
    /\ stoppingCh = 0
    /\ runRet = Nil

\* No call on a flat Group is made: the scenario is another one.
MainOff ==
    /\ MainInit
    /\ api = "opt"
    /\ entry = "Start"
    /\ g.Runners = << >>

\* Tree entries: a runner, a nil entry, or a Group of entries.
Leaf == [t |-> "runner", kids |-> << >>]
NilEntry == [t |-> "nil", kids |-> << >>]
GroupOf(ks) == [t |-> "group", kids |-> ks]

RECURSIVE Entries(_)
Entries(d) ==
    {Leaf, NilEntry} \cup
    (IF d = 0 THEN {}
     ELSE {GroupOf(ks) : ks \in UNION {[1..n -> Entries(d - 1)] : n \in 0..MaxRunners}})

\* The parent Groups explored.
Roots ==
    {GroupOf(ks) :
        ks \in UNION {[1..n -> Entries(MaxDepth - 1)] : n \in 0..MaxRunners}}

\* The entry at path p (the indices from the parent down).
RECURSIVE Sub(_, _)
Sub(t, p) == IF p = << >> THEN t ELSE Sub(t.kids[Head(p)], Tail(p))

RECURSIVE PathsOf(_)
PathsOf(t) ==
    {<< >>} \cup
    UNION {{<<i>> \o q : q \in PathsOf(t.kids[i])} : i \in 1..Len(t.kids)}

\* A number naming the runner at path p, for its error values.
RECURSIVE PathCode(_)
PathCode(p) ==
    IF p = << >> THEN 0
    ELSE 10 * PathCode(SubSeq(p, 1, Len(p) - 1)) + p[Len(p)]

NodeInit ==
    [start |-> "none", startCalls |-> 0, egErr |-> Nil,
     stop |-> "none", stopCalls |-> 0, idx |-> 0, firstErr |-> Nil]

NestOff ==
    /\ tree = NilEntry
    /\ nentry = "none"
    /\ npc = "off"
    /\ node = [p \in {<< >>} |-> NodeInit]
    /\ nret = Nil

PolicyNodeInit == [stop |-> "none", stopCalls |-> 0, idx |-> 0, firstErr |-> Nil]

\* No Stop is called on a v2 Group that holds Groups.
PolicyOff ==
    /\ ptree = NilEntry
    /\ ppc = "off"
    /\ pnode = [p \in {<< >>} |-> PolicyNodeInit]
    /\ pret = Nil

\* No method body has run on the store yet.
NoBody == [op |-> "none", len |-> 0, removed |-> 0]

\* A caller outside every Store method.
Idle ==
    [op |-> "none", key |-> 0, val |-> 0, keys |-> << >>, pc |-> "idle",
     err |-> Nil, n |-> 0, ok |-> FALSE, before |-> << >>, prev |-> NoBody]

\* No memkv Store exists.
KvOff ==
    /\ newCapacity = 0
    /\ capacity = 0
    /\ Items = << >>
    /\ mu = [w |-> 0, r |-> {}]
    /\ call = << >>
    /\ last = NoBody

\* The caller's first Run (or Start, or Stop) on the Group value.
FirstRun == round = 1

\* Neither Start nor Wait of the errCh-based API is called.
WaitOff ==
    /\ wRunners = << >>
    /\ wSignals = {}
    /\ wPc = "off"
    /\ wStart = << >>
    /\ wCtx = Background
    /\ wSignaled = FALSE
    /\ wFirst = 0
    /\ wRet = Nil

\* A function value: nil, or a function that returns ret when called.
NilFunc == [nil |-> TRUE, ret |-> Nil]
Func(e) == [nil |-> FALSE, ret |-> e]

\* No RunnerType method is called.
RunnerOff ==
    /\ r = [StartFunc |-> NilFunc, StopFunc |-> NilFunc]
    /\ rPc = "off"
    /\ rCalls = [Start |-> 0, Stop |-> 0, StartFunc |-> 0, StopFunc |-> 0]
    /\ rRet = [m |-> "none", err |-> Nil]

Init == MainInit /\ NestOff /\ FirstRun /\ WaitOff /\ RunnerOff /\ PolicyOff /\ KvOff

----------------------------------------------------------------------------
\* Environment.

\* The caller cancels ctx (optionally with a cause) or its deadline elapses.
\* Cancellation reaches the derived contexts that are not done yet.
CancelCtx ==
    /\ ~Done(ctx)
    /\ \E c \in {[err |-> Canceled, cause |-> Canceled],
                 [err |-> Canceled, cause |-> CustomCause],
                 [err |-> DeadlineExceeded, cause |-> DeadlineExceeded]} :
          /\ ctx' = c
          /\ NoteFirst("ctx")
          /\ errCtx' = IF errCtx.made /\ errCtx.cause = Nil
                       THEN [errCtx EXCEPT !.cause = c.cause]
                       ELSE errCtx
          /\ stopCtx' = IF stopCtx.made /\ stopCtx.err = Nil
                        THEN [stopCtx EXCEPT !.err = c.err, !.cause = c.cause]
                        ELSE stopCtx
    /\ UNCHANGED <<otherVars, confVars, notify, signaled, egErr, start, startCalls, seq,
                   startRet, stop, stopCalls, stopLoop, egStopErr, stopRet,
                   runVars, pc,
                   stopOut,
                   stopOrder>>

\* A signal reaches the process while the subscription is registered.
Signal ==
    /\ notify = "registered"
    /\ ~signaled
    /\ \E s \in Signals : Relayed(s)
    /\ signaled' = TRUE
    /\ NoteFirst("signal")
    /\ UNCHANGED <<otherVars, confVars, ctx, notify, startVars, stopVars, runVars, pc>>

\* A goroutine spawned for a runner's Start gets to run and calls r.Start.
GoStart(i) ==
    /\ Present(i)
    /\ start[i] = "spawned"
    /\ start' = [start EXCEPT ![i] = "running"]
    /\ startCalls' = [startCalls EXCEPT ![i] = @ + 1]
    /\ UNCHANGED <<otherVars, confVars, envVars, errCtx, egErr, seq, startRet, stopVars,
                   runVars, pc>>

\* r.Start returns inside a goroutine of the start errgroup.
RunnerStartReturn(i) ==
    /\ Present(i)
    /\ start[i] = "running"
    /\ ~seq.in
    /\ \E err \in {Nil, StartError(i)} :
          /\ start' = [start EXCEPT ![i] = IF err = Nil THEN "nil" ELSE "err"]
          /\ EgRecord(err)
          /\ IF err # Nil THEN NoteFirst("error") ELSE first' = first
    /\ UNCHANGED <<otherVars, confVars, ctx, notify, signaled, startCalls, seq, startRet,
                   stopVars, runVars, pc>>

----------------------------------------------------------------------------
\* Group.Start, v1 and v2.

\* for _, r := range g.Runners: one goroutine per non-nil runner.
\* Mutant of SpawnStarts: nil entries get a goroutine too.
Mut_SpawnStartsAll == [i \in Idx |-> "spawned"]

SpawnStarts == [i \in Idx |-> IF g.Runners[i] THEN "spawned" ELSE "none"]

\* Start up to the select: errgroup.WithContext, signal.NotifyContext, and the
\* goroutines (one per runner, or the one running sequentialStart).
StartCall ==
    /\ api \in {"v1", "v2"}
    /\ entry \in {"Start", "Run"}
    /\ pc = "idle"
    /\ errCtx' = WithCancelCause(ctx)
    /\ notify' = "registered"
    /\ IF g.StartupSequentially
       THEN /\ seq' = [seq EXCEPT !.pc = "spawned"]
            /\ start' = start
       ELSE /\ start' = SpawnStarts
            /\ seq' = seq
    /\ pc' = "start_select"
    /\ UNCHANGED <<otherVars, confVars, ctx, signaled, first, egErr, startCalls, startRet,
                   stopVars, runVars>>

\* sequentialStart: the goroutine running the pass gets to run.
SeqStartBegin ==
    /\ seq.pc = "spawned"
    /\ seq' = [seq EXCEPT !.pc = "loop", !.i = 1]
    /\ UNCHANGED <<otherVars, confVars, envVars, errCtx, egErr, start, startCalls,
                   startRet, stopVars, runVars, pc>>

\* sequentialStart: if r == nil { continue }
SeqStartSkip ==
    /\ seq.pc = "loop"
    /\ seq.i \in Idx
    /\ ~g.Runners[seq.i]
    /\ seq' = [seq EXCEPT !.i = @ + 1]
    /\ UNCHANGED <<otherVars, confVars, envVars, errCtx, egErr, start, startCalls,
                   startRet, stopVars, runVars, pc>>

\* sequentialStart: r.Start(ctx) is called and the pass blocks in it.
SeqStartInvoke ==
    /\ seq.pc = "loop"
    /\ ~seq.in
    /\ Present(seq.i)
    /\ seq' = [seq EXCEPT !.in = TRUE]
    /\ start' = [start EXCEPT ![seq.i] = "running"]
    /\ startCalls' = [startCalls EXCEPT ![seq.i] = @ + 1]
    /\ UNCHANGED <<otherVars, confVars, envVars, errCtx, egErr, startRet, stopVars,
                   runVars, pc>>

\* Mutant of SeqStartAfter: the pass ends at the first error.
Mut_SeqStartBreak(i, err) == IF err # Nil THEN Len(g.Runners) + 1 ELSE i + 1

\* sequentialStart: where the pass goes after runner i returned err.
SeqStartAfter(i, err) == i + 1

\* sequentialStart: r.Start returns; the first error is kept, the loop goes on.
SeqStartReturn ==
    /\ seq.pc = "loop"
    /\ seq.in
    /\ \E err \in {Nil, StartError(seq.i)} :
          /\ start' = [start EXCEPT ![seq.i] = IF err = Nil THEN "nil" ELSE "err"]
          /\ seq' = [seq EXCEPT !.i = SeqStartAfter(seq.i, err),
                                !.in = FALSE,
                                !.firstErr = FirstErr(@, err)]
          /\ IF err # Nil THEN NoteFirst("error") ELSE first' = first
    /\ UNCHANGED <<otherVars, confVars, ctx, notify, signaled, errCtx, egErr, startCalls,
                   startRet, stopVars, runVars, pc>>

\* sequentialStart returns firstErr to the errgroup goroutine that ran it.
SeqStartFinish ==
    /\ seq.pc = "loop"
    /\ seq.i = Len(g.Runners) + 1
    /\ seq' = [seq EXCEPT !.pc = "returned"]
    /\ EgRecord(seq.firstErr)
    /\ UNCHANGED <<otherVars, confVars, envVars, start, startCalls, startRet, stopVars,
                   runVars, pc>>

\* Mutant of ErrBranchResult: errCtx.Err() instead of context.Cause(errCtx).
Mut_ErrBranchErr == IF errCtx.cause # Nil THEN Canceled ELSE Nil

\* context.Cause(errCtx)
ErrBranchResult == errCtx.cause

\* Mutant of SignalBranchResult: signalCtx.Err() instead of ctx.Err().
Mut_SignalBranchErr == IF signaled THEN Canceled ELSE ctx.err

\* ctx.Err()
SignalBranchResult == ctx.err

\* Mutant of SignalStop: the subscription is left registered.
Mut_SignalStopLeak(n) == n

\* The deferred stop() of signal.NotifyContext, signal.Stop(signalCh) in Run
\* of the options API: a registered subscription is removed.
SignalStop(n) == IF n = "registered" THEN "stopped" ELSE n

\* select: case <-errCtx.Done(): return context.Cause(errCtx); the deferred
\* stop() removes the signal subscription.
StartSelectErrCtx ==
    /\ pc = "start_select"
    /\ ErrCtxDone
    /\ startRet' = ErrBranchResult
    /\ pc' = "start_returned"
    /\ notify' = SignalStop(notify)
    /\ UNCHANGED <<otherVars, confVars, ctx, signaled, first, errCtx, egErr, start, startCalls,
                   seq, stopVars, runVars>>

\* select: case <-signalCtx.Done() is taken; ctx.Err() is evaluated next.
StartSelectSignalCtx ==
    /\ pc = "start_select"
    /\ SignalCtxDone
    /\ pc' = "start_signal"
    /\ UNCHANGED <<otherVars, confVars, envVars, startVars, stopVars, runVars>>

\* return ctx.Err(); the deferred stop() removes the signal subscription.
StartReturnCtxErr ==
    /\ pc = "start_signal"
    /\ startRet' = SignalBranchResult
    /\ pc' = "start_returned"
    /\ notify' = SignalStop(notify)
    /\ UNCHANGED <<otherVars, confVars, ctx, signaled, first, errCtx, egErr, start, startCalls,
                   seq, stopVars, runVars>>

----------------------------------------------------------------------------
\* Group.Stop, v1 and v2.

\* for _, r := range g.Runners: one goroutine per non-nil runner.
SpawnStops == [i \in Idx |-> IF g.Runners[i] THEN "spawned" ELSE "none"]

\* Stop is entered by the caller, or by Run's defer once Start has returned.
StopCall ==
    /\ api \in {"v1", "v2"}
    /\ \/ entry = "Stop" /\ pc = "idle"
       \/ entry = "Run" /\ pc = "start_returned"
    /\ IF g.ShutdownSequentially
       THEN /\ pc' = "stop_loop"
            /\ stop' = stop
       ELSE /\ pc' = "stop_wait"
            /\ stop' = SpawnStops
    /\ stopCtx' = StopContext(ctx)
    /\ UNCHANGED <<otherVars, confVars, envVars, startVars, stopCalls, stopLoop,
                   egStopErr, stopRet, runVars,
                   stopOut,
                   stopOrder>>

\* Mutant of TimerArmed: sequentialStop's runners get a context with no timer.
Mut_TimerArmedConcurrentOnly ==
    stopCtx.made /\ stopCtx.err = Nil /\ ~StopCtxIsCtx /\ ~g.ShutdownSequentially

\* The timer of the runners' Stop context is armed: the context was derived
\* with a timeout and is not done yet.
TimerArmed == stopCtx.made /\ stopCtx.err = Nil /\ ~StopCtxIsCtx

\* The stop timeout elapses: the timer of the runners' Stop context fires.
StopTimeout ==
    /\ TimerArmed
    /\ stopCtx' = [stopCtx EXCEPT !.err = DeadlineExceeded,
                                  !.cause = StopTimeoutCause]
    /\ UNCHANGED <<otherVars, confVars, envVars, startVars, stop, stopCalls, stopLoop,
                   egStopErr, stopRet, runVars, pc,
                   stopOut,
                   stopOrder>>

\* A goroutine spawned for a runner's Stop gets to run and calls r.Stop.
GoStop(i) ==
    /\ Present(i)
    /\ stop[i] = "spawned"
    /\ stop' = [stop EXCEPT ![i] = "running"]
    /\ stopCalls' = [stopCalls EXCEPT ![i] = @ + 1]
    /\ UNCHANGED <<otherVars, confVars, envVars, startVars, stopLoop, egStopErr, stopRet,
                   runVars, pc,
                   stopCtx,
                   stopOut,
                   stopOrder>>

\* r.Stop returns inside a goroutine of the stop errgroup, which keeps the
\* first non-nil error.
RunnerStopReturn(i) ==
    /\ Present(i)
    /\ stop[i] = "running"
    /\ ~stopLoop.in
    /\ \E err \in StopResults(i) :
          /\ stop' = [stop EXCEPT ![i] = IF err = Nil THEN "nil" ELSE "err"]
          /\ stopOut' = [stopOut EXCEPT ![i] = err]
          /\ stopOrder' = Append(stopOrder, i)
          /\ egStopErr' = FirstErr(egStopErr, err)
    /\ UNCHANGED <<otherVars, confVars, envVars, startVars, stopCalls, stopLoop, stopRet,
                   runVars, pc,
                   stopCtx>>

\* Mutant of StopsEnded: at the deadline Stop leaves its goroutines behind.
Mut_StopsEndedOrDeadline ==
    \/ \A i \in Idx : stop[i] \notin {"spawned", "running"}
    \/ Done(stopCtx)

\* eg.Wait() of the stop errgroup: every spawned goroutine has ended.
StopsEnded == \A i \in Idx : stop[i] \notin {"spawned", "running"}

\* concurrentStop: return eg.Wait(), once every spawned goroutine has ended.
StopWait ==
    /\ pc = "stop_wait"
    /\ StopsEnded
    /\ stopRet' = egStopErr
    /\ stopCtx' = CancelStopCtx
    /\ pc' = "stop_returned"
    /\ UNCHANGED <<otherVars, confVars, envVars, startVars, stop, stopCalls, stopLoop,
                   egStopErr, runVars,
                   stopOut,
                   stopOrder>>

\* Mutant of StopTarget: ShutdownReversed is ignored.
Mut_StopTargetForward(i) == i + 1

\* sequentialStop: the runner visited at loop index i (0-based, as in the code),
\* as an index into the 1-based runner list.
StopTarget(i) ==
    IF g.ShutdownReversed THEN (Len(g.Runners) - 1 - i) + 1 ELSE i + 1

\* sequentialStop: if r == nil { continue }
SeqStopSkip ==
    /\ pc = "stop_loop"
    /\ stopLoop.i < Len(g.Runners)
    /\ ~g.Runners[StopTarget(stopLoop.i)]
    /\ stopLoop' = [stopLoop EXCEPT !.i = @ + 1]
    /\ UNCHANGED <<otherVars, confVars, envVars, startVars, stop, stopCalls, egStopErr,
                   stopRet, runVars, pc,
                   stopCtx,
                   stopOut,
                   stopOrder>>

\* sequentialStop: r.Stop(ctx) is called and the loop blocks in it.
SeqStopInvoke ==
    /\ pc = "stop_loop"
    /\ ~stopLoop.in
    /\ stopLoop.i < Len(g.Runners)
    /\ g.Runners[StopTarget(stopLoop.i)]
    /\ stopLoop' = [stopLoop EXCEPT !.in = TRUE]
    /\ stop' = [stop EXCEPT ![StopTarget(stopLoop.i)] = "running"]
    /\ stopCalls' = [stopCalls EXCEPT ![StopTarget(stopLoop.i)] = @ + 1]
    /\ UNCHANGED <<otherVars, confVars, envVars, startVars, egStopErr, stopRet, runVars,
                   pc,
                   stopCtx,
                   stopOut,
                   stopOrder>>

\* Mutant of SeqStopAfter: the loop ends once the deadline has passed.
Mut_SeqStopAfterDeadline(i, err) ==
    IF Done(stopCtx) THEN Len(g.Runners) ELSE i + 1

\* Mutant of SeqStopAfter: the loop breaks at the first error.
Mut_SeqStopBreak(i, err) == IF err # Nil THEN Len(g.Runners) ELSE i + 1

\* sequentialStop: where the loop goes after the runner at index i returned err.
SeqStopAfter(i, err) == i + 1

\* sequentialStop: r.Stop returns; the first error is kept, the loop goes on.
SeqStopReturn ==
    /\ pc = "stop_loop"
    /\ stopLoop.in
    /\ LET t == StopTarget(stopLoop.i) IN
       \E err \in StopResults(t) :
          /\ stop' = [stop EXCEPT ![t] = IF err = Nil THEN "nil" ELSE "err"]
          /\ stopOut' = [stopOut EXCEPT ![t] = err]
          /\ stopOrder' = Append(stopOrder, t)
          /\ stopLoop' = [stopLoop EXCEPT !.i = SeqStopAfter(stopLoop.i, err),
                                          !.in = FALSE,
                                          !.firstErr = FirstErr(@, err)]
    /\ UNCHANGED <<otherVars, confVars, envVars, startVars, stopCalls, egStopErr, stopRet,
                   runVars, pc,
                   stopCtx>>

\* sequentialStop: return firstErr
SeqStopFinish ==
    /\ pc = "stop_loop"
    /\ stopLoop.i >= Len(g.Runners)
    /\ stopRet' = stopLoop.firstErr
    /\ stopCtx' = IF api = "opt" THEN stopCtx ELSE CancelStopCtx
    /\ pc' = "stop_returned"
    /\ UNCHANGED <<otherVars, confVars, envVars, startVars, stop, stopCalls, stopLoop,
                   egStopErr, runVars,
                   stopOut,
                   stopOrder>>

----------------------------------------------------------------------------
\* Group.Run, v1 and v2: defer g.Stop(ctx); return g.Start(ctx)

\* Mutant of RunResult: the Stop error is returned when Start returned nil.
Mut_RunResultOrStop(startErr, stopErr) ==
    IF startErr # Nil THEN startErr ELSE stopErr

\* The value of `return g.Start(ctx)`; the deferred Stop's result is dropped.
RunResult(startErr, stopErr) == startErr

RunReturn ==
    /\ api \in {"v1", "v2"}
    /\ entry = "Run"
    /\ pc = "stop_returned"
    /\ runRet' = RunResult(startRet, stopRet)
    /\ pc' = "run_returned"
    /\ UNCHANGED <<otherVars, confVars, envVars, startVars, stopVars, go, run, stoppingCh>>

----------------------------------------------------------------------------
\* Options API: Group.Start, Group.Stop, Group.Run.

\* Group.Start called directly: one goroutine per non-nil runner.
OptStartCall ==
    /\ api = "opt"
    /\ entry = "Start"
    /\ pc = "idle"
    /\ start' = SpawnStarts
    /\ pc' = "start_wait"
    /\ UNCHANGED <<otherVars, confVars, envVars, errCtx, egErr, startCalls, seq,
                   startRet, stopVars, runVars>>

\* Group.Start: return eg.Wait()
OptStartWait ==
    /\ pc = "start_wait"
    /\ StartsEnded
    /\ startRet' = egErr
    /\ pc' = "start_returned"
    /\ UNCHANGED <<otherVars, confVars, envVars, errCtx, egErr, start, startCalls, seq,
                   stopVars, runVars>>

\* Run up to its select: the goroutine around g.Start is spawned and the
\* signal channel is subscribed when signals were given.
OptRunCall ==
    /\ api = "opt"
    /\ entry = "Run"
    /\ pc = "idle"
    /\ go' = [go EXCEPT !.pc = "spawned"]
    /\ notify' = IF cfg.signals # {} THEN "registered" ELSE notify
    /\ pc' = "run_select"
    /\ UNCHANGED <<otherVars, confVars, ctx, signaled, first, startVars, stopVars, run,
                   stoppingCh, runRet>>

\* Run's goroutine enters g.Start(ctx).
OptGoStartCall ==
    /\ go.pc = "spawned"
    /\ start' = SpawnStarts
    /\ go' = [go EXCEPT !.pc = "wait"]
    /\ UNCHANGED <<otherVars, confVars, envVars, errCtx, egErr, startCalls, seq,
                   startRet, stopVars, run, stoppingCh, runRet, pc>>

\* Mutant of GoAfterStart: a nil result of g.Start is sent as well.
Mut_GoAfterStartAlwaysSend(err) == "send"

\* if err := g.Start(ctx); err != nil { startErrCh <- err }
GoAfterStart(err) == IF err # Nil THEN "send" ELSE "ended"

\* Run's goroutine: g.Start returned; a non-nil error is to be sent on the
\* unbuffered startErrCh, otherwise the goroutine ends.
OptGoStartWait ==
    /\ go.pc = "wait"
    /\ StartsEnded
    /\ go' = [pc |-> GoAfterStart(egErr), err |-> egErr]
    /\ UNCHANGED <<otherVars, confVars, envVars, startVars, stopVars, run, stoppingCh,
                   runRet, pc>>

\* select: case <-signalCh
OptSelectSignal ==
    /\ pc = "run_select"
    /\ signaled
    /\ run' = [run EXCEPT !.trigger = "signal"]
    /\ pc' = "run_triggered"
    /\ UNCHANGED <<otherVars, confVars, envVars, startVars, stopVars, go, stoppingCh,
                   runRet>>

\* select: case err := <-startErrCh, the rendezvous with Run's goroutine.
OptSelectStartErr ==
    /\ pc = "run_select"
    /\ go.pc = "send"
    /\ run' = [run EXCEPT !.trigger = "start", !.startErr = go.err]
    /\ go' = [go EXCEPT !.pc = "ended"]
    /\ pc' = "run_triggered"
    /\ UNCHANGED <<otherVars, confVars, envVars, startVars, stopVars, stoppingCh, runRet>>

\* select: case <-ctx.Done(): runErr = ctx.Err()
OptSelectCtxDone ==
    /\ pc = "run_select"
    /\ Done(ctx)
    /\ run' = [run EXCEPT !.trigger = "ctx", !.runErr = ctx.err]
    /\ pc' = "run_triggered"
    /\ UNCHANGED <<otherVars, confVars, envVars, startVars, stopVars, go, stoppingCh,
                   runRet>>

\* Mutant of CloseStopping: the channel is left open.
Mut_CloseStoppingNever(n) == n

\* if cfg.stoppingCh != nil { close(cfg.stoppingCh) }, counting the closes.
CloseStopping(n) == IF cfg.stoppingCh THEN n + 1 ELSE n

\* signal.Stop(signalCh); close(cfg.stoppingCh) unless nil; g.Stop is entered.
OptRunStopping ==
    /\ pc = "run_triggered"
    /\ notify' = SignalStop(notify)
    /\ stoppingCh' = CloseStopping(stoppingCh)
    /\ stopCtx' = RunStopContext(ctx)
    /\ pc' = "stop_range"
    /\ UNCHANGED <<otherVars, confVars, ctx, signaled, first, startVars, stop, stopCalls,
                   stopLoop, egStopErr, stopRet, go, run, runRet,
                   stopOut,
                   stopOrder>>

\* Group.Stop called directly.
OptStopCall ==
    /\ api = "opt"
    /\ entry = "Stop"
    /\ pc = "idle"
    /\ stopCtx' = [made |-> TRUE, err |-> ctx.err, cause |-> ctx.cause]
    /\ pc' = "stop_range"
    /\ UNCHANGED <<otherVars, confVars, envVars, startVars, stop, stopCalls, stopLoop,
                   egStopErr, stopRet, runVars,
                   stopOut,
                   stopOrder>>

\* Group.Stop: if r == nil { continue }
OptStopSkip ==
    /\ pc = "stop_range"
    /\ stopLoop.i < Len(g.Runners)
    /\ ~g.Runners[stopLoop.i + 1]
    /\ stopLoop' = [stopLoop EXCEPT !.i = @ + 1]
    /\ UNCHANGED <<otherVars, confVars, envVars, startVars, stop, stopCalls, egStopErr,
                   stopRet, runVars, pc,
                   stopCtx,
                   stopOut,
                   stopOrder>>

\* Group.Stop: r.Stop(ctx) is called and the loop blocks in it.
OptStopInvoke ==
    /\ pc = "stop_range"
    /\ ~stopLoop.in
    /\ stopLoop.i < Len(g.Runners)
    /\ g.Runners[stopLoop.i + 1]
    /\ stopLoop' = [stopLoop EXCEPT !.in = TRUE]
    /\ stop' = [stop EXCEPT ![stopLoop.i + 1] = "running"]
    /\ stopCalls' = [stopCalls EXCEPT ![stopLoop.i + 1] = @ + 1]
    /\ UNCHANGED <<otherVars, confVars, envVars, startVars, egStopErr, stopRet, runVars,
                   pc,
                   stopCtx,
                   stopOut,
                   stopOrder>>

\* Mutant of OptStopAfter: the range breaks at the first error.
Mut_OptStopBreak(i, err) == IF err # Nil THEN Len(g.Runners) ELSE i + 1

\* Group.Stop: where the range goes after the runner at index i returned err.
OptStopAfter(i, err) == i + 1

\* Group.Stop: r.Stop returns; the first error is kept, the range goes on.
OptStopReturn ==
    /\ pc = "stop_range"
    /\ stopLoop.in
    /\ \E err \in StopResults(stopLoop.i + 1) :
          /\ stop' = [stop EXCEPT ![stopLoop.i + 1] =
                                     IF err = Nil THEN "nil" ELSE "err"]
          /\ stopOut' = [stopOut EXCEPT ![stopLoop.i + 1] = err]
          /\ stopOrder' = Append(stopOrder, stopLoop.i + 1)
          /\ stopLoop' = [stopLoop EXCEPT !.i = OptStopAfter(stopLoop.i, err),
                                          !.in = FALSE,
                                          !.firstErr = FirstErr(@, err)]
    /\ UNCHANGED <<otherVars, confVars, envVars, startVars, stopCalls, egStopErr, stopRet,
                   runVars, pc,
                   stopCtx>>

\* Group.Stop: return firstErr
OptStopFinish ==
    /\ pc = "stop_range"
    /\ stopLoop.i >= Len(g.Runners)
    /\ stopRet' = stopLoop.firstErr
    /\ stopCtx' = IF api = "opt" THEN stopCtx ELSE CancelStopCtx
    /\ pc' = "stop_returned"
    /\ UNCHANGED <<otherVars, confVars, envVars, startVars, stop, stopCalls, stopLoop,
                   egStopErr, runVars,
                   stopOut,
                   stopOrder>>

\* Run: return cmp.Or(startErr, stopErr, runErr)
OptRunReturn ==
    /\ api = "opt"
    /\ entry = "Run"
    /\ pc = "stop_returned"
    /\ runRet' = CmpOr(run.startErr, stopRet, run.runErr)
    /\ stopCtx' = CancelStopCtx
    /\ pc' = "run_returned"
    /\ UNCHANGED <<otherVars, confVars, envVars, startVars, stop, stopCalls, stopLoop,
                   egStopErr, stopRet, go, run, stoppingCh,
                   stopOut,
                   stopOrder>>

----------------------------------------------------------------------------
Next ==
    \/ CancelCtx
    \/ Signal
    \/ \E i \in Idx : GoStart(i)
    \/ \E i \in Idx : RunnerStartReturn(i)
    \/ \E i \in Idx : GoStop(i)
    \/ \E i \in Idx : RunnerStopReturn(i)
    \/ StartCall
    \/ SeqStartBegin
    \/ SeqStartSkip
    \/ SeqStartInvoke
    \/ SeqStartReturn
    \/ SeqStartFinish
    \/ StartSelectErrCtx
    \/ StartSelectSignalCtx
    \/ StartReturnCtxErr
    \/ StopCall
    \/ StopTimeout
    \/ StopWait
    \/ SeqStopSkip
    \/ SeqStopInvoke
    \/ SeqStopReturn
    \/ SeqStopFinish
    \/ RunReturn
    \/ OptStartCall
    \/ OptStartWait
    \/ OptRunCall
    \/ OptGoStartCall
    \/ OptGoStartWait
    \/ OptSelectSignal
    \/ OptSelectStartErr
    \/ OptSelectCtxDone
    \/ OptRunStopping
    \/ OptStopCall
    \/ OptStopSkip
    \/ OptStopInvoke
    \/ OptStopReturn
    \/ OptStopFinish
    \/ OptRunReturn

Spec == Init /\ [][Next]_vars

----------------------------------------------------------------------------
\* Nested Groups (options API): Group is a []Runner and has Start(ctx) and
\* Stop(ctx), so a Group can be an entry of another Group.

Paths == DOMAIN node
IsGroup(p) == Sub(tree, p).t = "group"
IsLeaf(p) == Sub(tree, p).t = "runner"
IsNil(p) == Sub(tree, p).t = "nil"
Parent(p) == SubSeq(p, 1, Len(p) - 1)
Kids(p) == {Append(p, i) : i \in 1..Len(Sub(tree, p).kids)}
Leaves == {p \in Paths : IsLeaf(p)}

InitNest ==
    /\ MainOff
    /\ FirstRun
    /\ KvOff
    /\ PolicyOff
    /\ WaitOff
    /\ RunnerOff
    /\ tree \in Roots
    /\ nentry \in {"Start", "Stop"}
    /\ npc = "idle"
    /\ node = [p \in PathsOf(tree) |-> NodeInit]
    /\ nret = Nil

\* Mutant of EnterStart: the Group also spawns the runners of the Groups
\* nested in it.
Mut_EnterStartDeep(nd, p) ==
    [q \in DOMAIN nd |->
        IF q = p
        THEN [nd[q] EXCEPT !.start = "running", !.startCalls = @ + 1]
        ELSE IF Len(q) > Len(p) /\ SubSeq(q, 1, Len(p)) = p /\ ~IsNil(q)
             THEN [nd[q] EXCEPT !.start = "spawned"]
             ELSE nd[q]]

\* Start is entered on the entry at p: a runner's Start runs; a Group's
\* Start spawns one goroutine per non-nil entry of its own list.
EnterStart(nd, p) ==
    [q \in DOMAIN nd |->
        IF q = p
        THEN [nd[q] EXCEPT !.start = "running", !.startCalls = @ + 1]
        ELSE IF q \in Kids(p) /\ ~IsNil(q)
             THEN [nd[q] EXCEPT !.start = "spawned"]
             ELSE nd[q]]

\* The entry at p returned err from Start into its Group's errgroup.
LeaveStart(nd, p, err) ==
    [q \in DOMAIN nd |->
        IF q = p
        THEN [nd[q] EXCEPT !.start = IF err = Nil THEN "nil" ELSE "err"]
        ELSE IF q = Parent(p)
             THEN [nd[q] EXCEPT !.egErr = FirstErr(@, err)]
             ELSE nd[q]]

StartsEndedBelow(p) ==
    \A q \in Kids(p) : node[q].start \notin {"spawned", "running"}

\* The caller calls Start on the parent Group.
NestStartCall ==
    /\ npc = "idle"
    /\ nentry = "Start"
    /\ node' = EnterStart(node, << >>)
    /\ npc' = "start_wait"
    /\ UNCHANGED <<notNestVars, tree, nentry, nret>>

\* A spawned goroutine calls r.Start(ctx) on its entry.
NestGoStart(p) ==
    /\ p # << >>
    /\ node[p].start = "spawned"
    /\ node' = EnterStart(node, p)
    /\ UNCHANGED <<notNestVars, tree, nentry, npc, nret>>

\* A runner's Start returns.
NestRunnerStartReturn(p) ==
    /\ IsLeaf(p)
    /\ node[p].start = "running"
    /\ \E err \in {Nil, StartError(PathCode(p))} :
          node' = LeaveStart(node, p, err)
    /\ UNCHANGED <<notNestVars, tree, nentry, npc, nret>>

\* A nested Group's Start returns eg.Wait().
NestGroupStartReturn(p) ==
    /\ p # << >>
    /\ IsGroup(p)
    /\ node[p].start = "running"
    /\ StartsEndedBelow(p)
    /\ node' = LeaveStart(node, p, node[p].egErr)
    /\ UNCHANGED <<notNestVars, tree, nentry, npc, nret>>

\* The parent's Start returns eg.Wait().
NestStartReturn ==
    /\ npc = "start_wait"
    /\ StartsEndedBelow(<< >>)
    /\ nret' = node[<< >>].egErr
    /\ node' = [node EXCEPT ![<< >>].start =
                               IF node[<< >>].egErr = Nil THEN "nil" ELSE "err"]
    /\ npc' = "start_returned"
    /\ UNCHANGED <<notNestVars, tree, nentry>>

\* Stop is entered on the entry at p.
EnterStop(nd, p) ==
    [nd EXCEPT ![p].stop = "running", ![p].stopCalls = @ + 1]

\* The entry at p returned err from Stop to the loop of its Group.
LeaveStop(nd, p, err) ==
    [q \in DOMAIN nd |->
        IF q = p
        THEN [nd[q] EXCEPT !.stop = IF err = Nil THEN "nil" ELSE "err"]
        ELSE IF q = Parent(p)
             THEN [nd[q] EXCEPT !.firstErr = FirstErr(@, err), !.idx = @ + 1]
             ELSE nd[q]]

\* The caller calls Stop on the parent Group.
NestStopCall ==
    /\ npc = "idle"
    /\ nentry = "Stop"
    /\ node' = EnterStop(node, << >>)
    /\ npc' = "stop_range"
    /\ UNCHANGED <<notNestVars, tree, nentry, nret>>

\* Group.Stop at p: if r == nil { continue }
NestStopSkip(p) ==
    /\ IsGroup(p)
    /\ node[p].stop = "running"
    /\ node[p].idx < Len(Sub(tree, p).kids)
    /\ IsNil(Append(p, node[p].idx + 1))
    /\ node' = [node EXCEPT ![p].idx = @ + 1]
    /\ UNCHANGED <<notNestVars, tree, nentry, npc, nret>>

\* Group.Stop at p: r.Stop(ctx) is called on the next entry.
NestStopInvoke(p) ==
    /\ IsGroup(p)
    /\ node[p].stop = "running"
    /\ node[p].idx < Len(Sub(tree, p).kids)
    /\ ~IsNil(Append(p, node[p].idx + 1))
    /\ node[Append(p, node[p].idx + 1)].stop = "none"
    /\ node' = EnterStop(node, Append(p, node[p].idx + 1))
    /\ UNCHANGED <<notNestVars, tree, nentry, npc, nret>>

\* A runner's Stop returns.
NestRunnerStopReturn(p) ==
    /\ IsLeaf(p)
    /\ node[p].stop = "running"
    /\ \E err \in {Nil, StopError(PathCode(p))} :
          node' = LeaveStop(node, p, err)
    /\ UNCHANGED <<notNestVars, tree, nentry, npc, nret>>

\* A nested Group's Stop returns firstErr.
NestGroupStopReturn(p) ==
    /\ p # << >>
    /\ IsGroup(p)
    /\ node[p].stop = "running"
    /\ node[p].idx >= Len(Sub(tree, p).kids)
    /\ node' = LeaveStop(node, p, node[p].firstErr)
    /\ UNCHANGED <<notNestVars, tree, nentry, npc, nret>>

\* The parent's Stop returns firstErr.
NestStopReturn ==
    /\ npc = "stop_range"
    /\ node[<< >>].idx >= Len(tree.kids)
    /\ nret' = node[<< >>].firstErr
    /\ node' = [node EXCEPT ![<< >>].stop =
                               IF node[<< >>].firstErr = Nil THEN "nil" ELSE "err"]
    /\ npc' = "stop_returned"
    /\ UNCHANGED <<notNestVars, tree, nentry>>

NextNest ==
    \/ NestStartCall
    \/ \E p \in Paths : NestGoStart(p)
    \/ \E p \in Paths : NestRunnerStartReturn(p)
    \/ \E p \in Paths : NestGroupStartReturn(p)
    \/ NestStartReturn
    \/ NestStopCall
    \/ \E p \in Paths : NestStopSkip(p)
    \/ \E p \in Paths : NestStopInvoke(p)
    \/ \E p \in Paths : NestRunnerStopReturn(p)
    \/ \E p \in Paths : NestGroupStopReturn(p)
    \/ NestStopReturn

SpecNest == InitNest /\ [][NextNest]_vars

----------------------------------------------------------------------------
\* Nested Groups (v2): Group has Start(ctx) and Stop(ctx) with value
\* receivers, so a Group can be an entry of another Group's Runners; its Stop
\* reads its own ShutdownSequentially and ShutdownReversed.

PolicyGroupOf(ks, sequentially, reversed) ==
    [t |-> "group", kids |-> ks,
     ShutdownSequentially |-> sequentially, ShutdownReversed |-> reversed]

\* The entries of the parent: runners, nil entries, Groups of runners and nils.
PolicyEntries ==
    {Leaf, NilEntry} \cup
    {PolicyGroupOf(ks, sq, rv) :
        ks \in UNION {[1..n -> {Leaf, NilEntry}] : n \in 0..MaxRunners},
        sq \in BOOLEAN, rv \in BOOLEAN}

PolicyRoots ==
    {PolicyGroupOf(ks, sq, rv) :
        ks \in UNION {[1..n -> PolicyEntries] : n \in 0..MaxRunners},
        sq \in BOOLEAN, rv \in BOOLEAN}

PolicyPaths == DOMAIN pnode
PolicyIsGroup(p) == Sub(ptree, p).t = "group"
PolicyIsLeaf(p) == Sub(ptree, p).t = "runner"
PolicyIsNil(p) == Sub(ptree, p).t = "nil"
PolicyLen(p) == Len(Sub(ptree, p).kids)
PolicyKids(p) == {Append(p, i) : i \in 1..PolicyLen(p)}

\* Mutant of Sequentially: a nested Group follows the parent's flag.
Mut_SequentiallyOfParent(p) == ptree.ShutdownSequentially

\* if g.ShutdownSequentially, read by the Group at p.
Sequentially(p) == Sub(ptree, p).ShutdownSequentially

\* sequentialStop of the Group at p: the entry visited at loop index i.
PolicyTarget(p, i) ==
    Append(p, IF Sub(ptree, p).ShutdownReversed
              THEN (PolicyLen(p) - 1 - i) + 1
              ELSE i + 1)

InitPolicy ==
    /\ MainOff
    /\ NestOff
    /\ FirstRun
    /\ KvOff
    /\ WaitOff
    /\ RunnerOff
    /\ ptree \in PolicyRoots
    /\ ppc = "idle"
    /\ pnode = [p \in PathsOf(ptree) |-> PolicyNodeInit]
    /\ pret = Nil

\* Stop is entered on the entry at p: a runner's Stop runs; a Group's Stop
\* either starts its loop or spawns one goroutine per non-nil entry.
PolicyEnterStop(nd, p) ==
    [q \in DOMAIN nd |->
        IF q = p
        THEN [nd[q] EXCEPT !.stop = "running", !.stopCalls = @ + 1]
        ELSE IF /\ PolicyIsGroup(p)
                /\ ~Sequentially(p)
                /\ q \in PolicyKids(p)
                /\ ~PolicyIsNil(q)
             THEN [nd[q] EXCEPT !.stop = "spawned"]
             ELSE nd[q]]

\* The entry at p returned err from Stop: its Group keeps the first error,
\* and a sequential Group's loop moves on.
PolicyLeaveStop(nd, p, err) ==
    [q \in DOMAIN nd |->
        IF q = p
        THEN [nd[q] EXCEPT !.stop = IF err = Nil THEN "nil" ELSE "err"]
        ELSE IF p # << >> /\ q = Parent(p)
             THEN [nd[q] EXCEPT !.firstErr = FirstErr(@, err),
                                !.idx = IF Sequentially(q) THEN @ + 1 ELSE @]
             ELSE nd[q]]

\* The Stop of the Group at p has nothing left to wait for.
PolicyStopEnded(p) ==
    IF Sequentially(p)
    THEN pnode[p].idx >= PolicyLen(p)
    ELSE \A q \in PolicyKids(p) : pnode[q].stop \notin {"spawned", "running"}

\* The caller calls Stop on the parent Group.
PolicyStopCall ==
    /\ ppc = "idle"
    /\ pnode' = PolicyEnterStop(pnode, << >>)
    /\ ppc' = "stopping"
    /\ UNCHANGED <<notPolicyVars, ptree, pret>>

\* concurrentStop: a spawned goroutine calls r.Stop(ctx) on its entry.
PolicyGoStop(p) ==
    /\ p # << >>
    /\ pnode[p].stop = "spawned"
    /\ pnode' = PolicyEnterStop(pnode, p)
    /\ UNCHANGED <<notPolicyVars, ptree, ppc, pret>>

\* sequentialStop at p: if r == nil { continue }
PolicySeqStopSkip(p) ==
    /\ PolicyIsGroup(p)
    /\ Sequentially(p)
    /\ pnode[p].stop = "running"
    /\ pnode[p].idx < PolicyLen(p)
    /\ PolicyIsNil(PolicyTarget(p, pnode[p].idx))
    /\ pnode' = [pnode EXCEPT ![p].idx = @ + 1]
    /\ UNCHANGED <<notPolicyVars, ptree, ppc, pret>>

\* sequentialStop at p: r.Stop(ctx) is called on the entry the loop is at.
PolicySeqStopInvoke(p) ==
    /\ PolicyIsGroup(p)
    /\ Sequentially(p)
    /\ pnode[p].stop = "running"
    /\ pnode[p].idx < PolicyLen(p)
    /\ ~PolicyIsNil(PolicyTarget(p, pnode[p].idx))
    /\ pnode[PolicyTarget(p, pnode[p].idx)].stop = "none"
    /\ pnode' = PolicyEnterStop(pnode, PolicyTarget(p, pnode[p].idx))
    /\ UNCHANGED <<notPolicyVars, ptree, ppc, pret>>

\* A runner's Stop returns.
PolicyRunnerStopReturn(p) ==
    /\ PolicyIsLeaf(p)
    /\ pnode[p].stop = "running"
    /\ \E err \in {Nil, StopError(PathCode(p))} :
          pnode' = PolicyLeaveStop(pnode, p, err)
    /\ UNCHANGED <<notPolicyVars, ptree, ppc, pret>>

\* A nested Group's Stop returns: firstErr, or eg.Wait().
PolicyGroupStopReturn(p) ==
    /\ p # << >>
    /\ PolicyIsGroup(p)
    /\ pnode[p].stop = "running"
    /\ PolicyStopEnded(p)
    /\ pnode' = PolicyLeaveStop(pnode, p, pnode[p].firstErr)
    /\ UNCHANGED <<notPolicyVars, ptree, ppc, pret>>

\* The parent's Stop returns.
PolicyStopReturn ==
    /\ ppc = "stopping"
    /\ PolicyStopEnded(<< >>)
    /\ pret' = pnode[<< >>].firstErr
    /\ pnode' = PolicyLeaveStop(pnode, << >>, pnode[<< >>].firstErr)
    /\ ppc' = "returned"
    /\ UNCHANGED <<notPolicyVars, ptree>>

NextPolicy ==
    \/ PolicyStopCall
    \/ \E p \in PolicyPaths : PolicyGoStop(p)
    \/ \E p \in PolicyPaths : PolicySeqStopSkip(p)
    \/ \E p \in PolicyPaths : PolicySeqStopInvoke(p)
    \/ \E p \in PolicyPaths : PolicyRunnerStopReturn(p)
    \/ \E p \in PolicyPaths : PolicyGroupStopReturn(p)
    \/ PolicyStopReturn

SpecPolicy == InitPolicy /\ [][NextPolicy]_vars

\* ---------------------------------------------------------------------------
\* memkv: a Store created by New and used by concurrent callers.

NumKeys == 3
NumVals == 2
NumCallers == 2
MaxCapacity == 2
MaxKeys == 2

\* The key type, the value type and the goroutines that share the Store.
K == 1..NumKeys
V == 1..NumVals
Callers == 1..NumCallers

\* The capacities passed to New: negative, zero and positive ones.
Capacities == (0 - 1)..MaxCapacity

\* The arguments of one Delete call.
KeyLists == UNION {[1..n -> K] : n \in 0..MaxKeys}

AtCapacityError == [k |-> "at_capacity", i |-> 0]

\* New: the capacity the Store keeps.
New(c) == IF c < 0 THEN 0 ELSE c

\* len(s.data.Items)
StoreLen == Cardinality(DOMAIN Items)

\* Set with `>` in place of `>=`: one more item than the capacity is admitted.
Mut_AtCapacityStrict(key) ==
    /\ key \notin DOMAIN Items
    /\ capacity > 0
    /\ StoreLen > capacity

\* Set without the `capacity > 0` test: a Store without a limit is always full.
Mut_AtCapacityNoLimitTest(key) ==
    /\ key \notin DOMAIN Items
    /\ StoreLen >= capacity

\* Set's test: the key is not present, the Store has a limit and it is reached.
AtCapacity(key) ==
    /\ key \notin DOMAIN Items
    /\ capacity > 0
    /\ StoreLen >= capacity

\* s.data.Items[key] = underlying.Item[K, V]{Value: val}
Assign(items, key, val) ==
    [k \in DOMAIN items \cup {key} |-> IF k = key THEN val ELSE items[k]]

\* delete(s.data.Items, key)
Remove(items, key) == [k \in DOMAIN items \ {key} |-> items[k]]

\* Delete's loop over its keys.
RECURSIVE DeleteEach(_, _)
DeleteEach(items, keys) ==
    IF keys = << >>
    THEN items
    ELSE DeleteEach(Remove(items, Head(keys)), Tail(keys))

InitKv ==
    /\ MainOff
    /\ NestOff
    /\ FirstRun
    /\ WaitOff
    /\ RunnerOff
    /\ PolicyOff
    /\ newCapacity \in Capacities
    /\ capacity = New(newCapacity)
    /\ Items = << >>
    /\ mu = [w |-> 0, r |-> {}]
    /\ call = [c \in Callers |-> Idle]
    /\ last = NoBody

\* s.mu.Lock(): waits until no caller holds the mutex in either mode.
Lock(c) ==
    /\ mu.w = 0
    /\ mu.r = {}
    /\ mu' = [mu EXCEPT !.w = c]

\* s.mu.RLock(): waits until no caller holds the mutex for writing.
RLock(c) ==
    /\ mu.w = 0
    /\ mu' = [mu EXCEPT !.r = @ \cup {c}]

\* Caller c enters method op with the mutex taken.
Entered(c, op, key, val, keys) ==
    call' = [call EXCEPT ![c] =
                [Idle EXCEPT !.op = op, !.key = key, !.val = val,
                             !.keys = keys, !.pc = "locked"]]

InBody(c, op) == call[c].pc = "locked" /\ call[c].op = op

\* Set(key, val) up to the mutex.
Set(c, key, val) ==
    /\ call[c].pc = "idle"
    /\ Lock(c)
    /\ Entered(c, "Set", key, val, << >>)
    /\ UNCHANGED <<newCapacity, capacity, Items, last>>
    /\ UNCHANGED notKvVars

\* Set under the mutex: refuse a new key at capacity, else store the value.
SetBody(c) ==
    /\ InBody(c, "Set")
    /\ IF AtCapacity(call[c].key)
       THEN /\ Items' = Items
            /\ call' = [call EXCEPT ![c].pc = "return",
                                    ![c].err = AtCapacityError,
                                    ![c].before = Items,
                                    ![c].prev = last]
       ELSE /\ Items' = Assign(Items, call[c].key, call[c].val)
            /\ call' = [call EXCEPT ![c].pc = "return",
                                    ![c].err = Nil,
                                    ![c].before = Items,
                                    ![c].prev = last]
    /\ last' = [op |-> "Set", len |-> StoreLen, removed |-> 0]
    /\ UNCHANGED <<newCapacity, capacity, mu>>
    /\ UNCHANGED notKvVars

\* Get(key) up to the mutex.
Get(c, key) ==
    /\ call[c].pc = "idle"
    /\ RLock(c)
    /\ Entered(c, "Get", key, 0, << >>)
    /\ UNCHANGED <<newCapacity, capacity, Items, last>>
    /\ UNCHANGED notKvVars

\* Get under the mutex: the value and whether the key is present.
GetBody(c) ==
    /\ InBody(c, "Get")
    /\ call' = [call EXCEPT ![c].pc = "return",
                            ![c].ok = call[c].key \in DOMAIN Items,
                            ![c].val = IF call[c].key \in DOMAIN Items
                                       THEN Items[call[c].key]
                                       ELSE 0]
    /\ UNCHANGED <<newCapacity, capacity, Items, mu, last>>
    /\ UNCHANGED notKvVars

\* Delete(keys...) up to the mutex.
Delete(c, keys) ==
    /\ call[c].pc = "idle"
    /\ Lock(c)
    /\ Entered(c, "Delete", 0, 0, keys)
    /\ UNCHANGED <<newCapacity, capacity, Items, last>>
    /\ UNCHANGED notKvVars

\* Delete under the mutex: every key is removed.
DeleteBody(c) ==
    /\ InBody(c, "Delete")
    /\ Items' = DeleteEach(Items, call[c].keys)
    /\ call' = [call EXCEPT ![c].pc = "return"]
    /\ last' = [op |-> "Delete", len |-> StoreLen,
                removed |-> StoreLen - Cardinality(DOMAIN Items')]
    /\ UNCHANGED <<newCapacity, capacity, mu>>
    /\ UNCHANGED notKvVars

\* Flush() up to the mutex.
Flush(c) ==
    /\ call[c].pc = "idle"
    /\ Lock(c)
    /\ Entered(c, "Flush", 0, 0, << >>)
    /\ UNCHANGED <<newCapacity, capacity, Items, last>>
    /\ UNCHANGED notKvVars

\* Flush under the mutex: clear(s.data.Items).
FlushBody(c) ==
    /\ InBody(c, "Flush")
    /\ Items' = << >>
    /\ call' = [call EXCEPT ![c].pc = "return"]
    /\ last' = [op |-> "Flush", len |-> StoreLen, removed |-> StoreLen]
    /\ UNCHANGED <<newCapacity, capacity, mu>>
    /\ UNCHANGED notKvVars

\* Len() up to the mutex.
LenCall(c) ==
    /\ call[c].pc = "idle"
    /\ RLock(c)
    /\ Entered(c, "Len", 0, 0, << >>)
    /\ UNCHANGED <<newCapacity, capacity, Items, last>>
    /\ UNCHANGED notKvVars

\* Len under the mutex.
LenBody(c) ==
    /\ InBody(c, "Len")
    /\ call' = [call EXCEPT ![c].pc = "return", ![c].n = StoreLen]
    /\ UNCHANGED <<newCapacity, capacity, Items, mu, last>>
    /\ UNCHANGED notKvVars

\* The deferred s.mu.Unlock() of Set, Delete and Flush, and the return.
Unlock(c) ==
    /\ call[c].pc = "return"
    /\ mu.w = c
    /\ mu' = [mu EXCEPT !.w = 0]
    /\ call' = [call EXCEPT ![c] = Idle]
    /\ UNCHANGED <<newCapacity, capacity, Items, last>>
    /\ UNCHANGED notKvVars

\* The deferred s.mu.RUnlock() of Get and Len, and the return.
RUnlock(c) ==
    /\ call[c].pc = "return"
    /\ c \in mu.r
    /\ mu' = [mu EXCEPT !.r = @ \ {c}]
    /\ call' = [call EXCEPT ![c] = Idle]
    /\ UNCHANGED <<newCapacity, capacity, Items, last>>
    /\ UNCHANGED notKvVars

NextKv ==
    \/ \E c \in Callers, key \in K, val \in V : Set(c, key, val)
    \/ \E c \in Callers : SetBody(c)
    \/ \E c \in Callers, key \in K : Get(c, key)
    \/ \E c \in Callers : GetBody(c)
    \/ \E c \in Callers, keys \in KeyLists : Delete(c, keys)
    \/ \E c \in Callers : DeleteBody(c)
    \/ \E c \in Callers : Flush(c)
    \/ \E c \in Callers : FlushBody(c)
    \/ \E c \in Callers : LenCall(c)
    \/ \E c \in Callers : LenBody(c)
    \/ \E c \in Callers : Unlock(c)
    \/ \E c \in Callers : RUnlock(c)

SpecKv == InitKv /\ [][NextKv]_vars

----------------------------------------------------------------------------
\* Repeated Run on one Group value.  The methods have value receivers and
\* never assign to the Group; the errgroup, the derived contexts, the
\* channels, the loop index and firstErr are locals made by each call.

MaxRounds == 2

\* The locals of Stop's loop at the entry of a call: `var firstErr error`.
Mut_StopLoopKept == [i |-> 0, in |-> FALSE, firstErr |-> stopLoop.firstErr]
StopLoopAtEntry == [i |-> 0, in |-> FALSE, firstErr |-> Nil]

\* Run has returned and the caller calls Run again on the same Group value
\* with a fresh context (and, options API, the same options).  The Group
\* and the configuration are what they were; every local of the call is made
\* anew.  Goroutines the first Run left behind keep belonging to it: a
\* runner's Start that is still running is the runner's own state.  A signal
\* subscription that Run had not removed would stay registered.
RunAgain ==
    /\ entry = "Run"
    /\ pc = "run_returned"
    /\ round < MaxRounds
    /\ round' = round + 1
    /\ ctx' = Background
    /\ notify' = IF notify = "registered" THEN "registered" ELSE "none"
    /\ signaled' = FALSE
    /\ first' = "none"
    /\ errCtx' = [made |-> FALSE, cause |-> Nil]
    /\ egErr' = Nil
    /\ start' = [i \in Idx |-> "none"]
    /\ startCalls' = [i \in Idx |-> 0]
    /\ seq' = [pc |-> "none", i |-> 0, in |-> FALSE, firstErr |-> Nil]
    /\ pc' = "idle"
    /\ startRet' = Nil
    /\ stop' = [i \in Idx |-> "none"]
    /\ stopCalls' = [i \in Idx |-> 0]
    /\ stopOut' = [i \in Idx |-> Nil]
    /\ stopOrder' = << >>
    /\ stopLoop' = StopLoopAtEntry
    /\ egStopErr' = Nil
    /\ stopRet' = Nil
    /\ stopCtx' = [made |-> FALSE, err |-> Nil, cause |-> Nil]
    /\ go' = [pc |-> "none", err |-> Nil]
    /\ run' = [startErr |-> Nil, runErr |-> Nil, trigger |-> "none"]
    /\ stoppingCh' = 0
    /\ runRet' = Nil
    /\ UNCHANGED <<kvVars, policyVars, nestVars, waitVars, runnerVars, confVars>>

InitRerun ==
    /\ MainInit
    /\ entry = "Run"
    /\ NestOff
    /\ FirstRun
    /\ KvOff
    /\ PolicyOff
    /\ WaitOff
    /\ RunnerOff

NextRerun ==
    \/ CancelCtx
    \/ Signal
    \/ \E i \in Idx : GoStart(i)
    \/ \E i \in Idx : RunnerStartReturn(i)
    \/ \E i \in Idx : GoStop(i)
    \/ \E i \in Idx : RunnerStopReturn(i)
    \/ StartCall
    \/ SeqStartBegin
    \/ SeqStartSkip
    \/ SeqStartInvoke
    \/ SeqStartReturn
    \/ SeqStartFinish
    \/ StartSelectErrCtx
    \/ StartSelectSignalCtx
    \/ StartReturnCtxErr
    \/ StopCall
    \/ StopTimeout
    \/ StopWait
    \/ SeqStopSkip
    \/ SeqStopInvoke
    \/ SeqStopReturn
    \/ SeqStopFinish
    \/ RunReturn
    \/ OptRunCall
    \/ OptGoStartCall
    \/ OptGoStartWait
    \/ OptSelectSignal
    \/ OptSelectStartErr
    \/ OptSelectCtxDone
    \/ OptRunStopping
    \/ OptStopSkip
    \/ OptStopInvoke
    \/ OptStopReturn
    \/ OptStopFinish
    \/ OptRunReturn
    \/ RunAgain

SpecRerun == InitRerun /\ [][NextRerun]_vars

----------------------------------------------------------------------------
\* The errCh-based API: Start spawns one goroutine per non-nil runner and
\* returns; each goroutine offers its runner's Start error on the unbuffered
\* errCh without blocking; Wait selects on errCh and its signal context.

WIdx == 1..Len(wRunners)

InitWait ==
    /\ MainOff
    /\ NestOff
    /\ FirstRun
    /\ KvOff
    /\ PolicyOff
    /\ RunnerOff
    /\ wRunners \in RunnerLists(MaxRunners)
    /\ wSignals \in SignalSets
    /\ wPc = "idle"
    /\ wStart = [i \in WIdx |-> "none"]
    /\ wCtx = Background
    /\ wSignaled = FALSE
    /\ wFirst = 0
    /\ wRet = Nil

\* Group.Start: g.errCh = make(chan error); go func(r) for each non-nil runner.
WaitApiStart ==
    /\ wPc = "idle"
    /\ wStart' = [i \in WIdx |-> IF wRunners[i] THEN "spawned" ELSE "none"]
    /\ wPc' = "started"
    /\ UNCHANGED <<notWaitVars, wRunners, wSignals, wCtx, wSignaled, wFirst, wRet>>

\* A spawned goroutine gets to run and calls r.Start(ctx).
WaitGoStart(i) ==
    /\ wStart[i] = "spawned"
    /\ wStart' = [wStart EXCEPT ![i] = "running"]
    /\ UNCHANGED <<notWaitVars, wRunners, wSignals, wPc, wCtx, wSignaled, wFirst, wRet>>

\* r.Start returns: nil ends the goroutine, an error takes it to the select.
WaitRunnerStartReturn(i) ==
    /\ wStart[i] = "running"
    /\ \E failed \in BOOLEAN :
          /\ wStart' = [wStart EXCEPT ![i] = IF failed THEN "failed" ELSE "nil"]
          /\ wFirst' = IF failed /\ wFirst = 0 THEN i ELSE wFirst
    /\ UNCHANGED <<notWaitVars, wRunners, wSignals, wPc, wCtx, wSignaled, wRet>>

\* A receiver is parked on the unbuffered errCh: Wait is blocked in its select.
Receiving == wPc = "waiting"

\* select { case g.errCh <- err: ...}: Wait is receiving, the error is handed
\* over and Wait returns it.
WaitSend(i) ==
    /\ wStart[i] = "failed"
    /\ Receiving
    /\ wStart' = [wStart EXCEPT ![i] = "sent"]
    /\ wRet' = StartError(i)
    /\ wPc' = "returned"
    /\ UNCHANGED <<notWaitVars, wRunners, wSignals, wCtx, wSignaled, wFirst>>

\* select { ... default: return }: nobody is receiving, the error is dropped.
WaitDrop(i) ==
    /\ wStart[i] = "failed"
    /\ ~Receiving
    /\ wStart' = [wStart EXCEPT ![i] = "dropped"]
    /\ UNCHANGED <<notWaitVars, wRunners, wSignals, wPc, wCtx, wSignaled, wFirst, wRet>>

\* Group.Wait is called after Start: signal.NotifyContext, then the select.
WaitCall ==
    /\ wPc = "started"
    /\ wPc' = "waiting"
    /\ UNCHANGED <<notWaitVars, wRunners, wSignals, wStart, wCtx, wSignaled, wFirst, wRet>>

\* The caller's context is canceled or its deadline passes.
WaitCancelCtx ==
    /\ wPc \in {"started", "waiting"}
    /\ ~Done(wCtx)
    /\ \E c \in {[err |-> Canceled, cause |-> Canceled],
                 [err |-> DeadlineExceeded, cause |-> DeadlineExceeded]} :
          wCtx' = c
    /\ UNCHANGED <<notWaitVars, wRunners, wSignals, wPc, wStart, wSignaled, wFirst, wRet>>

\* A signal reaches the process while Wait's subscription is registered;
\* signal.Notify relays every signal when the list is empty.
WaitSignal ==
    /\ wPc = "waiting"
    /\ ~wSignaled
    /\ \E s \in Signals : wSignals = {} \/ s \in wSignals
    /\ wSignaled' = TRUE
    /\ UNCHANGED <<notWaitVars, wRunners, wSignals, wPc, wStart, wCtx, wFirst, wRet>>

\* select: case <-ctx.Done() of the signal context; Wait returns nil.
WaitCtxDone ==
    /\ wPc = "waiting"
    /\ Done(wCtx) \/ wSignaled
    /\ wRet' = Nil
    /\ wPc' = "returned"
    /\ UNCHANGED <<notWaitVars, wRunners, wSignals, wStart, wCtx, wSignaled, wFirst>>

NextWait ==
    \/ WaitApiStart
    \/ \E i \in WIdx : WaitGoStart(i)
    \/ \E i \in WIdx : WaitRunnerStartReturn(i)
    \/ \E i \in WIdx : WaitSend(i)
    \/ \E i \in WIdx : WaitDrop(i)
    \/ WaitCall
    \/ WaitCancelCtx
    \/ WaitSignal
    \/ WaitCtxDone

SpecWait == InitWait /\ [][NextWait]_vars

----------------------------------------------------------------------------
\* RunnerType: an adapter from a start and a stop function to a Runner.

MaxCalls == 2

\* The errors a start or stop function may return.
FuncResults ==
    {Nil, StartError(1), StopError(1), Canceled, DeadlineExceeded,
     ShutdownTimeoutError}

Funcs == {NilFunc} \cup {Func(e) : e \in FuncResults}

InitRunner ==
    /\ MainOff
    /\ NestOff
    /\ FirstRun
    /\ KvOff
    /\ PolicyOff
    /\ WaitOff
    /\ r \in [StartFunc : Funcs, StopFunc : Funcs]
    /\ rPc = "idle"
    /\ rCalls = [Start |-> 0, Stop |-> 0, StartFunc |-> 0, StopFunc |-> 0]
    /\ rRet = [m |-> "none", err |-> Nil]

\* Mutant of Forward: the function's error is swallowed.
Mut_ForwardNil(f) == Nil

\* `return r.StartFunc(ctx)`: the function's result is the method's result.
Forward(f) == f.ret

\* RunnerType.Start: nil when StartFunc is nil, otherwise StartFunc is called.
RunnerStart ==
    /\ rPc = "idle"
    /\ rCalls.Start < MaxCalls
    /\ IF r.StartFunc.nil
       THEN /\ rCalls' = [rCalls EXCEPT !.Start = @ + 1]
            /\ rRet' = [m |-> "Start", err |-> Nil]
            /\ rPc' = rPc
       ELSE /\ rCalls' = [rCalls EXCEPT !.Start = @ + 1, !.StartFunc = @ + 1]
            /\ rPc' = "StartFunc"
            /\ rRet' = rRet
    /\ UNCHANGED <<notRunnerVars, r>>

\* StartFunc returns and Start returns its result.
RunnerStartFuncReturn ==
    /\ rPc = "StartFunc"
    /\ rRet' = [m |-> "Start", err |-> Forward(r.StartFunc)]
    /\ rPc' = "idle"
    /\ UNCHANGED <<notRunnerVars, r, rCalls>>

\* RunnerType.Stop: nil when StopFunc is nil, otherwise StopFunc is called.
RunnerStop ==
    /\ rPc = "idle"
    /\ rCalls.Stop < MaxCalls
    /\ IF r.StopFunc.nil
       THEN /\ rCalls' = [rCalls EXCEPT !.Stop = @ + 1]
            /\ rRet' = [m |-> "Stop", err |-> Nil]
            /\ rPc' = rPc
       ELSE /\ rCalls' = [rCalls EXCEPT !.Stop = @ + 1, !.StopFunc = @ + 1]
            /\ rPc' = "StopFunc"
            /\ rRet' = rRet
    /\ UNCHANGED <<notRunnerVars, r>>

\* StopFunc returns and Stop returns its result.
RunnerStopFuncReturn ==
    /\ rPc = "StopFunc"
    /\ rRet' = [m |-> "Stop", err |-> Forward(r.StopFunc)]
    /\ rPc' = "idle"
    /\ UNCHANGED <<notRunnerVars, r, rCalls>>

NextRunner ==
    \/ RunnerStart
    \/ RunnerStartFuncReturn
    \/ RunnerStop
    \/ RunnerStopFuncReturn

SpecRunner == InitRunner /\ [][NextRunner]_vars

----------------------------------------------------------------------------
\* Group.Stop of the v1 and v2 API under fair scheduling, with runners whose
\* Stop returns once the context passed to it is done.

InitStop ==
    /\ MainInit
    /\ api \in {"v1", "v2"}
    /\ entry = "Stop"
    /\ NestOff
    /\ FirstRun
    /\ KvOff
    /\ PolicyOff
    /\ WaitOff
    /\ RunnerOff

NextStop ==
    \/ CancelCtx
    \/ StopCall
    \/ StopTimeout
    \/ \E i \in Idx : GoStop(i)
    \/ \E i \in Idx : RunnerStopReturn(i)
    \/ StopWait
    \/ SeqStopSkip
    \/ SeqStopInvoke
    \/ SeqStopReturn
    \/ SeqStopFinish

\* The Go scheduler runs every goroutine that can run and timers fire: the
\* steps of Group.Stop and of its goroutines are taken when they stay
\* possible, and the stop timeout elapses.  A runner's Stop is only known to
\* return once its context is done.  Nothing obliges the caller to cancel
\* its context.
StopFairness ==
    /\ WF_vars(StopTimeout)
    /\ \A i \in 1..MaxStopRunners : WF_vars(GoStop(i))
    /\ \A i \in 1..MaxStopRunners : WF_vars(Done(stopCtx) /\ RunnerStopReturn(i))
    /\ WF_vars(StopWait)
    /\ WF_vars(SeqStopSkip)
    /\ WF_vars(SeqStopInvoke)
    /\ WF_vars(Done(stopCtx) /\ SeqStopReturn)
    /\ WF_vars(SeqStopFinish)

SpecStopFair == InitStop /\ [][NextStop]_vars /\ StopFairness

----------------------------------------------------------------------------
\* Properties.

StopReturned == pc \in {"stop_returned", "run_returned"}

\* C1: one call of Group.Stop (concurrent, sequential or reversed; v1, v2 and
\* options API; with or without a Start before it) invokes Stop on every
\* non-nil runner exactly once: never twice at any time, never on a nil entry,
\* and once Stop has returned every non-nil runner's Stop has been invoked
\* and has returned, whatever the other runners' Stop calls returned.
C1_StopExactlyOnce ==
    /\ \A i \in Idx : stopCalls[i] <= 1
    /\ \A i \in Idx : ~g.Runners[i] => stopCalls[i] = 0 /\ stop[i] = "none"
    /\ StopReturned =>
          \A i \in Idx : g.Runners[i] =>
                stopCalls[i] = 1 /\ stop[i] \in {"nil", "err"}

\* C1 witness: a sequential Stop, called without any Start, has returned after
\* the first runner's Stop failed and the second runner's Stop was still called.
C1_Witness ==
    /\ entry = "Stop"
    /\ g.ShutdownSequentially
    /\ pc = "stop_returned"
    /\ Len(g.Runners) = 2
    /\ stop[1] = "err"
    /\ stopCalls[2] = 1
    /\ startCalls = [i \in Idx |-> 0]

\* C2: when Group.Run has returned, every non-nil runner's Stop has been
\* invoked exactly once and has returned, whichever trigger ended the start
\* phase (a start error, a signal, the caller's context being done).
C2_RunStopsAll ==
    (entry = "Run" /\ pc = "run_returned") =>
        /\ \A i \in Idx : g.Runners[i] =>
               stopCalls[i] = 1 /\ stop[i] \in {"nil", "err"}
        /\ api = "opt" => run.trigger \in {"start", "signal", "ctx"}
        /\ api # "opt" => first \in {"error", "signal", "ctx"}

\* C2 witness: Run (options API) has returned after acting on the context
\* being done before any runner's Start was even invoked; both Stops ran.
C2_Witness ==
    /\ api = "opt"
    /\ pc = "run_returned"
    /\ run.trigger = "ctx"
    /\ Len(g.Runners) = 2
    /\ \A i \in Idx : g.Runners[i] /\ startCalls[i] = 0 /\ stopCalls[i] = 1

\* C3 as stated: Run (options API) returns the Start error if Group.Start
\* returned one, otherwise the Stop error, otherwise the context's error, and
\* nil only when all three are absent.
C3_Original ==
    (api = "opt" /\ pc = "run_returned") =>
        runRet = CmpOr(go.err, stopRet, ctx.err)

\* C3 amended: Run (options API) returns the first non-nil of startErr,
\* stopErr, runErr, where startErr is the Start error its select received
\* (nil unless that case was the one taken), stopErr is what Group.Stop
\* returned, and runErr is ctx.Err() recorded when ctx.Done() was the case
\* taken (nil otherwise); it returns nil exactly when those three are nil.
C3_RunPriority ==
    (api = "opt" /\ pc = "run_returned") =>
        /\ run.startErr # Nil => runRet = run.startErr
        /\ run.startErr = Nil /\ stopRet # Nil => runRet = stopRet
        /\ run.startErr = Nil /\ stopRet = Nil => runRet = run.runErr
        /\ runRet = Nil <=> run.startErr = Nil /\ stopRet = Nil /\ run.runErr = Nil
        /\ run.startErr = (IF run.trigger = "start" THEN go.err ELSE Nil)
        /\ run.trigger = "start" => go.err # Nil /\ go.err = egErr
        /\ run.runErr = (IF run.trigger = "ctx" THEN ctx.err ELSE Nil)
        /\ run.trigger = "ctx" => ctx.err # Nil

\* C3 witness: Run returned the start error although Stop failed too.
C3_Witness ==
    /\ api = "opt"
    /\ pc = "run_returned"
    /\ run.startErr # Nil
    /\ stopRet # Nil
    /\ runRet = run.startErr

ConcurrentStart == api \in {"v1", "v2"} /\ ~g.StartupSequentially

\* C4: in concurrent start mode (v1, v2), once a runner's Start has returned
\* an error, with no signal delivered and the caller's context not done,
\* Group.Start can return at once, whatever the other Start calls are doing;
\* the only select case ready is the errgroup context's, its value is the
\* recorded error, which is the failing runner's error, and that is what Start
\* has returned when it has returned.
C4_StartErrorWins ==
    ConcurrentStart =>
        /\ (pc = "start_select" /\ egErr # Nil /\ ~signaled /\ ~Done(ctx)) =>
              /\ ENABLED StartSelectErrCtx
              /\ ~ENABLED StartSelectSignalCtx
              /\ ErrBranchResult = egErr
        /\ (pc = "start_returned" /\ ~signaled /\ ~Done(ctx)) =>
              startRet = egErr /\ egErr # Nil
        /\ egErr # Nil => egErr.k = "start" /\ start[egErr.i] = "err"
        /\ \A i \in Idx :
              (start[i] = "err" /\ \A j \in Idx \ {i} : start[j] # "err") =>
                 egErr = StartError(i)

\* C4 witness: Start has returned the first runner's error while the second
\* runner's Start is still blocked, with no signal and a live context.
C4_Witness ==
    /\ ConcurrentStart
    /\ entry = "Start"
    /\ pc = "start_returned"
    /\ Len(g.Runners) = 2
    /\ start[1] = "err"
    /\ start[2] = "running"
    /\ startRet = StartError(1)
    /\ ~signaled
    /\ ~Done(ctx)

\* C5 as stated: in Run (options API), once a runner's Start has returned an
\* error while every other runner's Start is blocked, with no signal and a
\* live context, Run can go on towards stopping: Group.Start can return in
\* Run's goroutine or the select can receive the start error.
C5_StartErrorInitiatesStopping ==
    (/\ api = "opt"
     /\ entry = "Run"
     /\ pc = "run_select"
     /\ \E i \in Idx : start[i] = "err"
     /\ \A i \in Idx : start[i] # "spawned"
     /\ ~signaled
     /\ ~Done(ctx)) =>
        (ENABLED OptGoStartWait) \/ (ENABLED OptSelectStartErr)

StartHasReturned ==
    /\ api \in {"v1", "v2"}
    /\ entry \in {"Start", "Run"}
    /\ pc \in {"start_returned", "stop_wait", "stop_loop", "stop_returned",
               "run_returned"}

NoStartError == \A i \in Idx : start[i] # "err"

\* C6: when a relayed signal has arrived while Start (v1, v2) is blocked, the
\* select can take the signal case; with no runner's Start having failed and
\* the caller's context not done it is the only case, and Start returns nil;
\* Run then returns nil too (options API: when Stop returned no error).
C6_SignalReturnsNil ==
    /\ (api \in {"v1", "v2"} /\ pc = "start_select" /\ signaled) =>
          ENABLED StartSelectSignalCtx
    /\ (api \in {"v1", "v2"} /\ pc = "start_select" /\ signaled
            /\ NoStartError /\ ~Done(ctx)) =>
          ~ENABLED StartSelectErrCtx
    /\ (StartHasReturned /\ signaled /\ NoStartError /\ ~Done(ctx)) =>
          startRet = Nil
    /\ (pc = "run_returned" /\ signaled /\ NoStartError /\ ~Done(ctx)) =>
          IF api = "opt" THEN stopRet = Nil => runRet = Nil ELSE runRet = Nil

\* C6 witness: Start (v2) returned nil on a signal while a runner's Start is
\* still blocked and the context is live.
C6_Witness ==
    /\ api = "v2"
    /\ pc = "start_returned"
    /\ signaled
    /\ ~Done(ctx)
    /\ \E i \in Idx : start[i] = "running"
    /\ NoStartError
    /\ startRet = Nil

\* C7 as stated: when the caller's context is done with no start error and no
\* signal, Start (v1, v2) returns ctx.Err(), custom cancellation cause or not.
C7_Original ==
    (StartHasReturned /\ NoStartError /\ ~signaled /\ Done(ctx)) =>
        startRet = ctx.err

\* C7 amended: when the caller's context is done (before or during Start)
\* with no start error and no signal, Start is not blocked and returns
\* ctx.Err() if the context carries no custom cause; with a custom cause it
\* returns either ctx.Err() or that cause, context.Cause(ctx).
C7_CtxErrOrCause ==
    /\ (api \in {"v1", "v2"} /\ pc = "start_select" /\ Done(ctx)) =>
          (ENABLED StartSelectErrCtx) /\ (ENABLED StartSelectSignalCtx)
    /\ (StartHasReturned /\ NoStartError /\ ~signaled /\ Done(ctx)) =>
          /\ startRet \in {ctx.err, ctx.cause}
          /\ ctx.cause = ctx.err => startRet = ctx.err
          /\ ctx.err \in {Canceled, DeadlineExceeded}

\* C7 witness: the context was canceled with a custom cause and Start
\* returned the cause, not ctx.Err().
C7_Witness ==
    /\ StartHasReturned
    /\ NoStartError
    /\ ~signaled
    /\ ctx.err = Canceled
    /\ ctx.cause = CustomCause
    /\ startRet = CustomCause

\* The start error the group has: the errgroup's (concurrent mode) or the
\* sequential pass's.
FirstStartError == IF g.StartupSequentially THEN seq.firstErr ELSE egErr

\* C8 as stated: the trigger that occurred first while Start (v1, v2) was
\* pending decides its result: the start error if an error came first, nil if
\* a signal came first, ctx.Err() if the context was done first.
C8_Original ==
    StartHasReturned =>
        /\ first = "error" => startRet = FirstStartError
        /\ first = "signal" => startRet = Nil
        /\ first = "ctx" => startRet = ctx.err

\* C8 amended: Start's result is that of a trigger that has occurred, not
\* necessarily the first: nil only if a signal was relayed, a start error
\* only if it is the error the errgroup recorded, a context error only if the
\* context is done; when exactly one trigger has occurred the result is that
\* trigger's.
C8_SelectDecides ==
    StartHasReturned =>
        /\ startRet = Nil => signaled
        /\ startRet.k = "start" => startRet = egErr
        /\ startRet \in {Canceled, DeadlineExceeded, CustomCause} =>
              Done(ctx) /\ startRet \in {ctx.err, ctx.cause}
        /\ (egErr # Nil /\ ~signaled /\ ~Done(ctx)) => startRet = egErr
        /\ (signaled /\ NoStartError /\ ~Done(ctx)) => startRet = Nil
        /\ (Done(ctx) /\ ~signaled /\ NoStartError) =>
              startRet \in {ctx.err, ctx.cause}

\* C8 witness: a signal was the first trigger, a start error came later, and
\* Start returned the error.
C8_Witness ==
    /\ StartHasReturned
    /\ first = "signal"
    /\ egErr # Nil
    /\ startRet = egErr

SequentialStart ==
    api = "v2" /\ entry \in {"Start", "Run"} /\ g.StartupSequentially

\* The error of the earliest-listed runner whose Start failed, nil if none.
EarliestStartError ==
    IF NoStartError THEN Nil
    ELSE StartError(CHOOSE i \in Idx :
                       /\ start[i] = "err"
                       /\ \A j \in Idx : start[j] = "err" => i <= j)

\* C9: in sequential-start mode a runner's Start is called only after every
\* earlier non-nil runner's Start has returned, at most one Start runs at a
\* time, each is called at most once, the pass calls the next runner whatever
\* errors came before, and when the pass is over every non-nil runner's Start
\* has been called once and the error kept, which the errgroup records, is
\* the earliest-listed failing runner's (nil if none).
C9_SequentialStart ==
    SequentialStart =>
        /\ \A i \in Idx : start[i] # "none" =>
              \A j \in 1..(i - 1) : Present(j) => start[j] \in {"nil", "err"}
        /\ Cardinality({i \in Idx : start[i] = "running"}) <= 1
        /\ \A i \in Idx : startCalls[i] = IF start[i] = "none" THEN 0 ELSE 1
        /\ (seq.pc = "loop" /\ ~seq.in /\ Present(seq.i)) =>
              ENABLED SeqStartInvoke
        /\ seq.pc \in {"loop", "returned"} => seq.firstErr = EarliestStartError
        /\ seq.pc = "returned" =>
              /\ \A i \in Idx : Present(i) => start[i] \in {"nil", "err"}
              /\ egErr = EarliestStartError

\* C9 witness: the pass is over, the first two runners both failed, and the
\* error kept is the first runner's.
C9_Witness ==
    /\ SequentialStart
    /\ seq.pc = "returned"
    /\ Len(g.Runners) >= 2
    /\ start[1] = "err"
    /\ start[2] = "err"
    /\ startCalls[2] = 1
    /\ egErr = StartError(1)

\* C10 as stated: in sequential-start mode, once the pass is over, Start can
\* return with no signal and a live context.
C10_Original ==
    (SequentialStart /\ seq.pc = "returned" /\ pc = "start_select"
        /\ ~signaled /\ ~Done(ctx)) =>
        ENABLED StartSelectErrCtx

\* C10 amended: in sequential-start mode, with no signal and a live context,
\* Start cannot return before the pass is over, and once it is over Start can
\* return exactly when some runner's Start failed, returning the kept error;
\* if every Start returned nil Start stays blocked.
C10_SeqStartBlocks ==
    SequentialStart =>
        /\ (pc = "start_select" /\ ~signaled /\ ~Done(ctx)) =>
              /\ ~ENABLED StartSelectSignalCtx
              /\ (ENABLED StartSelectErrCtx) <=>
                    (seq.pc = "returned" /\ seq.firstErr # Nil)
              /\ seq.pc = "returned" => ErrBranchResult = seq.firstErr
        /\ (StartHasReturned /\ ~signaled /\ ~Done(ctx)) =>
              /\ seq.pc = "returned"
              /\ startRet = seq.firstErr
              /\ startRet # Nil

\* C10 witness: the pass is over, every Start returned nil, and Start is still
\* blocked in its select with no signal and a live context.
C10_Witness ==
    /\ SequentialStart
    /\ seq.pc = "returned"
    /\ pc = "start_select"
    /\ ~signaled
    /\ ~Done(ctx)
    /\ \E i \in Idx : Present(i)
    /\ \A i \in Idx : Present(i) => start[i] = "nil"
    /\ ~ENABLED StartSelectErrCtx
    /\ ~ENABLED StartSelectSignalCtx

StopApiV1V2 == api \in {"v1", "v2"} /\ entry \in {"Stop", "Run"}

OptRunStopPhase ==
    api = "opt" /\ entry = "Run" /\ cfg.stopTimeout > 0 /\ pc = "stop_range"

\* C12 as stated: in Run (options API) with a positive stop timeout, when the
\* timeout has elapsed in the stop phase with the caller's context live, the
\* cause of the runners' Stop context is neither context.Canceled nor
\* context.DeadlineExceeded: it is the shutdown-timeout cause.
C12_Original ==
    (OptRunStopPhase /\ stopCtx.err # Nil /\ ~Done(ctx)) =>
        /\ stopCtx.cause \notin {Canceled, DeadlineExceeded}
        /\ stopCtx.cause = ShutdownTimeoutError

\* C12 amended: in Run (options API) with a positive stop timeout, the
\* timeout can elapse during the stop phase, and when it has, with the
\* caller's context live, the runners' Stop context is done with
\* context.DeadlineExceeded as its error and as its cause, the same values a
\* deadline of the caller's context gives it; it is never ShutdownTimeoutError.
C12_PlainDeadline ==
    /\ (OptRunStopPhase /\ stopCtx.err = Nil) => ENABLED StopTimeout
    /\ (OptRunStopPhase /\ stopCtx.err # Nil /\ ~Done(ctx)) =>
          /\ stopCtx.err = DeadlineExceeded
          /\ stopCtx.cause = DeadlineExceeded
    /\ api = "opt" => stopCtx.cause # ShutdownTimeoutError

\* C12 witness: the stop timeout elapsed while a runner's Stop was running,
\* the caller's context live, and the cause is context.DeadlineExceeded.
C12_Witness ==
    /\ OptRunStopPhase
    /\ ~Done(ctx)
    /\ \E i \in Idx : stop[i] = "running"
    /\ stopCtx.err = DeadlineExceeded
    /\ stopCtx.cause = DeadlineExceeded

\* C13: in Run (options API) with a zero stop timeout the context handed to
\* the runners' Stop is the caller's context: it is done exactly when the
\* caller's context is, with the same error and cause, and no stop deadline
\* can fire.
C13_NoStopDeadline ==
    (api = "opt" /\ entry = "Run" /\ cfg.stopTimeout = 0 /\ stopCtx.made) =>
        /\ stopCtx.err = ctx.err
        /\ stopCtx.cause = ctx.cause
        /\ ~ENABLED StopTimeout

\* C13 witness: Run without a stop timeout is in its stop phase, a runner's
\* Stop is running and its context is live.
C13_Witness ==
    /\ api = "opt"
    /\ entry = "Run"
    /\ cfg.stopTimeout = 0
    /\ pc = "stop_range"
    /\ \E i \in Idx : stop[i] = "running"
    /\ stopCtx.made
    /\ stopCtx.err = Nil
    /\ ~Done(ctx)

\* C14 as stated: in Stop of the v1 and v2 API with a zero timeout, while a
\* runner's Stop is running its context is done only if the parent context
\* is, and its cause is not the shutdown-timeout error.
C14_Original ==
    (StopApiV1V2 /\ g.ShutdownTimeout = 0 /\ \E i \in Idx : stop[i] = "running")
        => /\ stopCtx.err # Nil => Done(ctx)
           /\ stopCtx.cause # ShutdownTimeoutError

\* C14 amended: in Stop of the v1 and v2 API a zero timeout is a deadline
\* already passed: the runners' context is done from the moment Stop derives
\* it, with context.DeadlineExceeded and cause ShutdownTimeoutError, unless
\* the parent context was done by then, in which case it carries the parent's
\* error and cause.
C14_ZeroTimeoutExpired ==
    (StopApiV1V2 /\ g.ShutdownTimeout = 0 /\ stopCtx.made) =>
        /\ stopCtx.err # Nil
        /\ ~ENABLED StopTimeout
        /\ \/ stopCtx.err = DeadlineExceeded /\ stopCtx.cause = ShutdownTimeoutError
           \/ Done(ctx) /\ stopCtx.err = ctx.err /\ stopCtx.cause = ctx.cause
        /\ ~Done(ctx) => stopCtx.cause = ShutdownTimeoutError

\* C14 witness: a runner's Stop is running under a zero timeout with the
\* parent context live, and its context is done with ShutdownTimeoutError.
C14_Witness ==
    /\ StopApiV1V2
    /\ g.ShutdownTimeout = 0
    /\ ~Done(ctx)
    /\ \E i \in Idx : stop[i] = "running"
    /\ stopCtx.err = DeadlineExceeded
    /\ stopCtx.cause = ShutdownTimeoutError

ConcurrentStop == StopApiV1V2 /\ ~g.ShutdownSequentially

\* The error of the first Stop call, in order of return, that failed.
FirstFailedStop ==
    LET failed == {k \in 1..Len(stopOrder) : stopOut[stopOrder[k]] # Nil} IN
    IF failed = {} THEN Nil
    ELSE stopOut[stopOrder[CHOOSE k \in failed : \A j \in failed : k <= j]]

\* C15: in concurrent stop mode (v1, v2) the first-error slot always holds
\* the error of the first Stop call that failed, so a later error never
\* replaces it; no Stop is called twice; Stop cannot return while a spawned
\* Stop call has not returned; and when it has returned every non-nil runner's
\* Stop was called once under the one derived context, and the result is that
\* first error, nil exactly when every Stop returned nil.
C15_ConcurrentStop ==
    ConcurrentStop =>
        /\ egStopErr = FirstFailedStop
        /\ \A i \in Idx : stopCalls[i] <= 1 /\ (~g.Runners[i] => stopCalls[i] = 0)
        /\ (pc = "stop_wait" /\ \E i \in Idx : stop[i] \in {"spawned", "running"})
              => ~ENABLED StopWait
        /\ pc = "stop_wait" => stopCtx.made
        /\ pc \in {"stop_returned", "run_returned"} =>
              /\ \A i \in Idx : Present(i) =>
                    stop[i] \in {"nil", "err"} /\ stopCalls[i] = 1
              /\ stopRet = FirstFailedStop
              /\ stopRet = Nil <=> \A i \in Idx : stopOut[i] = Nil

\* C15 witness: two Stop calls failed, the second-listed runner's first, and
\* Stop returned that runner's error.
C15_Witness ==
    /\ ConcurrentStop
    /\ pc = "stop_returned"
    /\ Len(stopOrder) >= 2
    /\ stopOrder[1] = 2
    /\ stopOrder[2] = 1
    /\ stopOut[1] = StopError(1)
    /\ stopOut[2] = StopError(2)
    /\ stopRet = StopError(2)

SequentialStop ==
    api = "v2" /\ entry \in {"Stop", "Run"} /\ g.ShutdownSequentially

\* The non-nil runners in list order.
ListOrder == SelectSeq([i \in Idx |-> i], LAMBDA i : g.Runners[i])

\* The order the policy asks for: list order, reversed under ShutdownReversed.
PolicyStopOrder ==
    IF g.ShutdownReversed
    THEN [k \in 1..Len(ListOrder) |-> ListOrder[Len(ListOrder) + 1 - k]]
    ELSE ListOrder

\* C16: in sequential-stop mode the Stop calls that have returned are, in
\* order, the first ones of the list order (of the reverse list order under
\* reverse-stop); the only Stop that can be running is the next one in that
\* order, so each call returns before the next begins; the runners called are
\* exactly those; and when Stop has returned the completion order is the
\* whole order, [C, B, A] for runners [A, B, C] under reverse-stop.
C16_SequentialStopOrder ==
    SequentialStop =>
        /\ Len(stopOrder) <= Len(PolicyStopOrder)
        /\ \A k \in 1..Len(stopOrder) : stopOrder[k] = PolicyStopOrder[k]
        /\ \A i \in Idx : stop[i] = "running" =>
              /\ Len(stopOrder) < Len(PolicyStopOrder)
              /\ i = PolicyStopOrder[Len(stopOrder) + 1]
        /\ \A i \in Idx :
              stopCalls[i] = IF stop[i] \in {"running", "nil", "err"} THEN 1 ELSE 0
        /\ pc \in {"stop_returned", "run_returned"} => stopOrder = PolicyStopOrder

\* C16 witness: three runners, reverse-stop, Stop has returned and the
\* completion order is third, second, first.
C16_Witness ==
    /\ SequentialStop
    /\ g.ShutdownReversed
    /\ g.Runners = <<TRUE, TRUE, TRUE>>
    /\ pc = "stop_returned"
    /\ stopOrder = <<3, 2, 1>>

\* Stop runs its runners in series: sequentialStop (v2), Group.Stop (options).
SerialStop == SequentialStop \/ (api = "opt" /\ entry \in {"Stop", "Run"})

\* The order the loop visits the non-nil runners in.
IterationOrder == IF api = "opt" THEN ListOrder ELSE PolicyStopOrder

\* C17: in a serial Stop (sequentialStop of v2, Group.Stop of the options
\* API) the error kept is always that of the first failed Stop in iteration
\* order; after a failure the loop still calls the next runner; and when Stop
\* has returned every non-nil runner's Stop has returned, in iteration order,
\* and the result is that first error (with reverse-stop the last-listed
\* failing runner's), nil exactly when no Stop failed.
C17_SerialStopFirstError ==
    SerialStop =>
        /\ stopLoop.firstErr = FirstFailedStop
        /\ (pc = "stop_loop" /\ ~stopLoop.in /\ stopLoop.i < Len(g.Runners)
               /\ g.Runners[StopTarget(stopLoop.i)]) => ENABLED SeqStopInvoke
        /\ (pc = "stop_range" /\ ~stopLoop.in /\ stopLoop.i < Len(g.Runners)
               /\ g.Runners[stopLoop.i + 1]) => ENABLED OptStopInvoke
        /\ pc \in {"stop_returned", "run_returned"} =>
              /\ stopOrder = IterationOrder
              /\ stopRet = FirstFailedStop
              /\ stopRet = Nil <=> \A i \in Idx : stopOut[i] = Nil
              /\ \A i \in Idx :
                    (/\ stopOut[i] # Nil
                     /\ \A j \in Idx : stopOut[j] # Nil =>
                           IF g.ShutdownReversed THEN j <= i ELSE i <= j)
                    => stopRet = stopOut[i]

\* C17 witness: reverse-stop, two runners' Stop failed, and Stop returned the
\* error of the later-listed one after calling both.
C17_Witness ==
    /\ SequentialStop
    /\ g.ShutdownReversed
    /\ pc = "stop_returned"
    /\ \E i, j \in Idx :
          /\ i < j
          /\ stopOut[i] = StopError(i)
          /\ stopOut[j] = StopError(j)
          /\ stopCalls[i] = 1
          /\ stopRet = StopError(j)

OptStart == api = "opt" /\ entry \in {"Start", "Run"}

\* The state part of C18.
OptStartState ==
    OptStart =>
        /\ \A i \in Idx : startCalls[i] <= 1 /\ (~g.Runners[i] => startCalls[i] = 0)
        /\ (pc = "start_wait" \/ go.pc = "wait") =>
              \A i \in Idx : Present(i) => start[i] # "none"
        /\ \A i \in Idx : start[i] = "spawned" => ENABLED GoStart(i)
        /\ (pc = "start_wait" /\ ~StartsEnded) => ~ENABLED OptStartWait
        /\ (go.pc = "wait" /\ ~StartsEnded) => ~ENABLED OptGoStartWait
        /\ egErr = Nil <=> NoStartError
        /\ egErr # Nil => egErr.k = "start" /\ start[egErr.i] = "err"
        /\ (entry = "Start" /\ pc = "start_returned") =>
              /\ \A i \in Idx : Present(i) =>
                    start[i] \in {"nil", "err"} /\ startCalls[i] = 1
              /\ startRet = egErr
        /\ go.pc \in {"send", "ended"} =>
              /\ \A i \in Idx : Present(i) =>
                    start[i] \in {"nil", "err"} /\ startCalls[i] = 1
              /\ go.err = egErr

\* C18: Group.Start of the options API spawns every non-nil runner's Start at
\* once, each free to run whatever the others do, calls none twice, cannot
\* return before all have returned, and returns the error slot: nil exactly
\* when every Start returned nil, otherwise a failed runner's error, and,
\* the slot never changing once it holds an error, the first one recorded.
C18_OptStartWaitsAll ==
    /\ []OptStartState
    /\ [][(OptStart /\ egErr # Nil) => egErr' = egErr]_vars

\* C18 witness: Start returned after both runners failed, with the error of
\* the second-listed one, which was recorded first.
C18_Witness ==
    /\ api = "opt"
    /\ entry = "Start"
    /\ pc = "start_returned"
    /\ Len(g.Runners) >= 2
    /\ start[1] = "err"
    /\ start[2] = "err"
    /\ startRet = StartError(2)

AllNil == \A i \in Idx : ~g.Runners[i]

\* C19: a nil entry is never started or stopped and contributes no result;
\* the errors Start and Stop return are errors of non-nil runners (or of the
\* contexts); the Stop calls made are those over the list without its nil
\* entries, every one of them once Stop has returned; a serial Stop standing
\* at a nil entry steps over it; and on an empty or all-nil Group Stop and
\* Start (options API) cannot block and return nil.
C19_NilEntriesSkipped ==
    /\ \A i \in Idx : ~g.Runners[i] =>
          /\ start[i] = "none" /\ startCalls[i] = 0
          /\ stop[i] = "none" /\ stopCalls[i] = 0 /\ stopOut[i] = Nil
    /\ \A k \in 1..Len(stopOrder) : Present(stopOrder[k])
    /\ startRet.k = "start" => Present(startRet.i)
    /\ stopRet # Nil => \E i \in Idx : Present(i) /\ stopOut[i] = stopRet
    /\ (pc = "stop_returned" /\ entry = "Stop") =>
          /\ Len(stopOrder) = Len(ListOrder)
          /\ \A k \in 1..Len(ListOrder) :
                \E j \in 1..Len(stopOrder) : stopOrder[j] = ListOrder[k]
    /\ (pc = "stop_loop" /\ stopLoop.i < Len(g.Runners)
           /\ ~g.Runners[StopTarget(stopLoop.i)]) => ENABLED SeqStopSkip
    /\ (pc = "stop_range" /\ stopLoop.i < Len(g.Runners)
           /\ ~g.Runners[stopLoop.i + 1]) => ENABLED OptStopSkip
    /\ AllNil =>
          /\ stopRet = Nil
          /\ api = "opt" => startRet = Nil /\ go.err = Nil
          /\ pc = "stop_wait" => ENABLED StopWait
          /\ pc = "stop_loop" => ENABLED (SeqStopSkip \/ SeqStopFinish)
          /\ pc = "stop_range" => ENABLED (OptStopSkip \/ OptStopFinish)
          /\ pc = "start_wait" => ENABLED OptStartWait

\* C19 witness: Stop has returned on a list with a nil entry before and after
\* a runner, whose Stop was called once and failed, and returned its error.
C19_Witness ==
    /\ entry = "Stop"
    /\ pc = "stop_returned"
    /\ g.Runners = <<FALSE, TRUE, FALSE>>
    /\ stopCalls[2] = 1
    /\ stopRet = StopError(2)

\* C20: in Run (options API) the stopping channel, when given, is closed at
\* most once; it is open while Run has not left its select and closed from
\* the moment Run enters Group.Stop, the trigger having been observed; no
\* runner's Stop is called while it is open; without a channel nothing is
\* closed.
C20_StoppingChClosedOnce ==
    (api = "opt" /\ entry = "Run") =>
        /\ ~cfg.stoppingCh => stoppingCh = 0
        /\ cfg.stoppingCh =>
              /\ stoppingCh <= 1
              /\ pc \in {"idle", "run_select", "run_triggered"} => stoppingCh = 0
              /\ pc \in {"stop_range", "stop_returned", "run_returned"} =>
                    stoppingCh = 1
              /\ stoppingCh = 1 => run.trigger # "none"
              /\ stoppingCh = 0 => \A i \in Idx : stopCalls[i] = 0

\* C20 witness: the channel is closed, Run is in Group.Stop and no runner's
\* Stop has been called yet.
C20_Witness ==
    /\ api = "opt"
    /\ entry = "Run"
    /\ cfg.stoppingCh
    /\ pc = "stop_range"
    /\ stoppingCh = 1
    /\ \E i \in Idx : Present(i)
    /\ \A i \in Idx : stopCalls[i] = 0

\* C21: in a tree of nested Groups (options API) no runner's Start or Stop
\* is ever invoked twice by one Start or one Stop of the parent, a nil entry
\* is never invoked, and when the parent's Start (Stop) has returned every
\* leaf runner's Start (Stop) has been invoked exactly once and has returned.
C21_NestedLeavesOnce ==
    /\ \A p \in Paths :
          /\ node[p].startCalls <= 1
          /\ node[p].stopCalls <= 1
          /\ IsNil(p) => node[p].startCalls = 0 /\ node[p].stopCalls = 0
    /\ npc = "start_returned" =>
          \A p \in Leaves :
             node[p].startCalls = 1 /\ node[p].start \in {"nil", "err"}
    /\ npc = "stop_returned" =>
          \A p \in Leaves :
             node[p].stopCalls = 1 /\ node[p].stop \in {"nil", "err"}

\* C21 witness: the parent holds a Group of two runners and a runner of its
\* own, its Start has returned and every one of the three leaves was started
\* once.
C21_Witness ==
    /\ tree = GroupOf(<<GroupOf(<<Leaf, Leaf>>), Leaf>>)
    /\ npc = "start_returned"
    /\ \A p \in {<<1, 1>>, <<1, 2>>, <<2>>} : node[p].startCalls = 1

\* What holds of any Run that has returned, whichever Run on the Group it is.
RunRules ==
    (entry = "Run" /\ pc = "run_returned") =>
        /\ notify # "registered"
        /\ \A i \in Idx :
              /\ Present(i) => stopCalls[i] = 1 /\ startCalls[i] <= 1
              /\ ~Present(i) => stopCalls[i] = 0 /\ startCalls[i] = 0
        /\ stopRet = FirstFailedStop
        /\ SerialStop => stopOrder = IterationOrder
        /\ api = "opt" => runRet = CmpOr(run.startErr, stopRet, run.runErr)
        /\ api # "opt" => runRet = startRet

C23_NoSignalsNoShutdown ==
    (api \in {"v1", "v2"} /\ entry \in {"Start", "Run"}
                          /\ g.ShutdownSignals = {}) =>
        /\ ~signaled
        /\ pc = "start_returned" => (egErr # Nil \/ Done(ctx))

\* C24 as stated: during one Run, once a runner's Stop has been invoked no
\* runner's Start is invoked any more, and once Run has returned no Start and
\* no Stop call begins.
C24_LifecycleForward ==
    [][entry = "Run" =>
          /\ (\E i \in Idx : stopCalls[i] > 0) => startCalls' = startCalls
          /\ pc = "run_returned" =>
                startCalls' = startCalls /\ stopCalls' = stopCalls]_vars

\* C25: Run of the v1 and v2 API calls Stop only after Start has returned,
\* and when Run has returned its result is exactly what Start returned,
\* whatever Stop returned, every non-nil runner's Stop having been called
\* once by the one Stop call.
C25_RunReturnsStart ==
    (api \in {"v1", "v2"} /\ entry = "Run") =>
        /\ pc \in {"idle", "start_select"} =>
              /\ ~stopCtx.made
              /\ \A i \in Idx : stopCalls[i] = 0 /\ stop[i] = "none"
        /\ pc = "run_returned" =>
              /\ runRet = startRet
              /\ \A i \in Idx : Present(i) => stopCalls[i] = 1
              /\ stopCtx.made

\* C25 witness: Start returned nil on a signal, a runner's Stop failed, and
\* Run returned nil.
C25_Witness ==
    /\ api = "v2"
    /\ entry = "Run"
    /\ pc = "run_returned"
    /\ first = "signal"
    /\ startRet = Nil
    /\ stopRet = StopError(1)
    /\ runRet = Nil

\* C26 as stated: in the errCh-based API, with no signal and a live context,
\* once a runner's Start has returned an error a waiting Wait can receive an
\* error, and when Wait has returned it returned the first error a runner's
\* Start returned, whether that error came before or after Wait began.
C26_WaitReturnsFirstError ==
    (~wSignaled /\ ~Done(wCtx)) =>
        /\ (wPc = "waiting" /\ wFirst # 0) => \E i \in WIdx : ENABLED WaitSend(i)
        /\ wPc = "returned" => wFirst # 0 /\ wRet = StartError(wFirst)

\* C27 as stated: Run (options API) returns the error it encountered first
\* in time: the Start error when its select received one, the context's error
\* when the select took ctx.Done() (both precede every Stop call), and
\* otherwise the first Stop error.
C27_FirstEncounteredError ==
    (api = "opt" /\ entry = "Run" /\ pc = "run_returned") =>
        /\ run.trigger = "start" => runRet = run.startErr
        /\ run.trigger = "ctx" => runRet = run.runErr
        /\ run.trigger = "signal" => runRet = stopRet

\* C28: RunnerType.Start with a nil StartFunc returns nil, calls nothing and
\* changes nothing but the caller's result; with a StartFunc it calls that
\* function exactly once per call of Start, never StopFunc, and returns the
\* function's result unchanged.  RunnerType.Stop does the same with StopFunc.
\* No method changes the RunnerType value.
C28_RunnerTypeAdapter ==
    /\ [](/\ rCalls.StartFunc =
                (IF r.StartFunc.nil THEN 0 ELSE rCalls.Start)
          /\ rCalls.StopFunc =
                (IF r.StopFunc.nil THEN 0 ELSE rCalls.Stop)
          /\ rRet.m = "Start" => rRet.err = r.StartFunc.ret
          /\ rRet.m = "Stop" => rRet.err = r.StopFunc.ret
          /\ rPc = "StartFunc" => ~r.StartFunc.nil
          /\ rPc = "StopFunc" => ~r.StopFunc.nil)
    /\ [][/\ r' = r
          /\ (rPc = "idle" /\ rCalls'.Start # rCalls.Start /\ r.StartFunc.nil) =>
                /\ rRet' = [m |-> "Start", err |-> Nil]
                /\ rPc' = "idle"
                /\ rCalls'.StartFunc = rCalls.StartFunc
          /\ (rPc = "idle" /\ rCalls'.Stop # rCalls.Stop /\ r.StopFunc.nil) =>
                /\ rRet' = [m |-> "Stop", err |-> Nil]
                /\ rPc' = "idle"
                /\ rCalls'.StopFunc = rCalls.StopFunc
          /\ rCalls'.StartFunc \in {rCalls.StartFunc, rCalls.StartFunc + 1}
          /\ rCalls'.StopFunc \in {rCalls.StopFunc, rCalls.StopFunc + 1}]_vars

\* C28 witness: Start returned nil for a nil StartFunc, then Stop called
\* StopFunc once and returned its error.
C28_Witness ==
    /\ r = [StartFunc |-> NilFunc, StopFunc |-> Func(StopError(1))]
    /\ rPc = "idle"
    /\ rCalls = [Start |-> 1, Stop |-> 1, StartFunc |-> 0, StopFunc |-> 1]
    /\ rRet = [m |-> "Stop", err |-> StopError(1)]

\* C29: Group.Stop (and so Run) has not returned while a runner's Stop call
\* it invoked or spawned has not returned; while such a call is pending
\* neither concurrentStop's wait nor the serial loops can finish, whether or
\* not the runners' Stop context is done; and a Stop call that is running
\* ends only by returning, so a Stop that never returns blocks Group.Stop for
\* good.
C29_StopBlocksOnRunners ==
    /\ [](/\ StopReturned => \A i \in Idx : stop[i] \notin {"spawned", "running"}
          /\ (\E i \in Idx : stop[i] \in {"spawned", "running"}) =>
                /\ ~ENABLED StopWait
                /\ ~ENABLED SeqStopFinish
                /\ ~ENABLED OptStopFinish
                /\ ~ENABLED RunReturn
                /\ ~ENABLED OptRunReturn)
    /\ [][\A i \in Idx : (stop[i] = "running" /\ stop'[i] # "running") =>
             /\ stop'[i] \in {"nil", "err"}
             /\ stopOrder' = Append(stopOrder, i)]_vars

\* C29 witness: the stop timeout has elapsed with the caller's context live,
\* one runner's Stop has returned the cause, the other's is still running,
\* and concurrentStop is still waiting.
C29_Witness ==
    /\ api = "v2"
    /\ entry = "Stop"
    /\ pc = "stop_wait"
    /\ stopCtx.err = DeadlineExceeded
    /\ ~Done(ctx)
    /\ Len(g.Runners) >= 2
    /\ stopOut[1] = ShutdownTimeoutError
    /\ stop[2] = "running"

\* C30: with a positive stop timeout, under fair scheduling and with runners
\* whose Stop returns once the context passed to it is done, a Group.Stop
\* (v1, v2) that is waiting for its runners, concurrently, in list order or in
\* reverse order, eventually returns.
C30_StopTerminates ==
    (g.ShutdownTimeout > 0 /\ pc \in {"stop_wait", "stop_loop"})
        ~> (pc = "stop_returned")

\* C30 witness: a reverse sequential Stop with a positive timeout has returned
\* after the timeout elapsed and a runner's Stop returned its cause.
C30_Witness ==
    /\ api = "v2"
    /\ entry = "Stop"
    /\ g.ShutdownTimeout > 0
    /\ g.ShutdownSequentially
    /\ g.ShutdownReversed
    /\ Len(g.Runners) = 3
    /\ pc = "stop_returned"
    /\ stopCtx.err = DeadlineExceeded
    /\ ~Done(ctx)
    /\ stopOut[1] = ShutdownTimeoutError

\* C31 as stated: in concurrent start mode (v2), once a runner's Start has
\* failed, the context the Start calls still running were given is done only
\* if the caller's context is done.
C31_PeersKeepLiveContext ==
    (/\ api = "v2"
     /\ entry \in {"Start", "Run"}
     /\ ~g.StartupSequentially
     /\ \E i \in Idx : start[i] = "err"
     /\ \E j \in Idx : start[j] = "running") =>
        (StartCtxDone => Done(ctx))

\* Run (options API) whose runners' Start calls have all returned nil.
OptRunStartsNil ==
    /\ api = "opt"
    /\ entry = "Run"
    /\ go.pc \in {"wait", "ended"}
    /\ \A i \in Idx : Present(i) => start[i] = "nil"

\* C32 as stated: after every Start returned nil, a Run that has returned
\* with no Stop failure returned the error of the caller's context whenever
\* that context was done before any signal arrived.
C32_Original ==
    (OptRunStartsNil /\ pc = "run_returned" /\ stopRet = Nil /\ first = "ctx") =>
        runRet = ctx.err

\* C32 amended: after every Start returned nil, Run (options API) stays in its
\* select with the stopping channel open, no Stop context and no Stop called;
\* no start error can be received, and while no watched signal has arrived and
\* the context is live no case can be taken.  When Run has returned it acted
\* on a signal or on the context, and with no Stop failure it returned the
\* context's error if ctx.Done() was the case taken and nil if the signal
\* case was, even when the context was done as well.
C32_NilStartsNoTrigger ==
    OptRunStartsNil =>
        /\ pc = "run_select" =>
              /\ stoppingCh = 0
              /\ ~stopCtx.made
              /\ \A i \in Idx : stopCalls[i] = 0 /\ stop[i] = "none"
              /\ ~ENABLED OptSelectStartErr
              /\ (~signaled /\ ~Done(ctx)) =>
                    ~ENABLED OptSelectSignal /\ ~ENABLED OptSelectCtxDone
        /\ pc = "run_returned" =>
              /\ run.trigger \in {"signal", "ctx"}
              /\ run.runErr = (IF run.trigger = "ctx" THEN ctx.err ELSE Nil)
              /\ stopRet = Nil => runRet = run.runErr

\* C32 witness: both Starts returned nil, the context was then canceled, Run
\* stopped both runners and returned context.Canceled.
C32_Witness ==
    /\ OptRunStartsNil
    /\ Len(g.Runners) = 2
    /\ \A i \in Idx : start[i] = "nil" /\ stopCalls[i] = 1
    /\ go.pc = "ended"
    /\ pc = "run_returned"
    /\ run.trigger = "ctx"
    /\ stopRet = Nil
    /\ runRet = Canceled

\* C33: the signal subscription is registered only while Start (v1, v2) is in
\* its select or Run (options API) is between signal.Notify and signal.Stop;
\* once Start has returned, and from Run's signal.Stop on, whichever case the
\* select took, no subscription of the call is registered and no signal
\* reaches it.
C33_SubscriptionRemoved ==
    /\ notify = "registered" =>
          pc \in {"start_select", "start_signal", "run_select", "run_triggered"}
    /\ (api \in {"v1", "v2"} /\ entry \in {"Start", "Run"}
           /\ pc \notin {"idle", "start_select", "start_signal"}) =>
          notify = "stopped"
    /\ (api = "opt" /\ entry = "Run"
           /\ pc \in {"stop_range", "stop_returned", "run_returned"}) =>
          notify = (IF cfg.signals # {} THEN "stopped" ELSE "none")
    /\ notify # "registered" => ~ENABLED Signal

\* C33 witness: Run (options API) with a watched signal has returned after a
\* start error was the trigger, and the subscription is removed.
C33_Witness ==
    /\ api = "opt"
    /\ entry = "Run"
    /\ cfg.signals # {}
    /\ pc = "run_returned"
    /\ run.trigger = "start"
    /\ ~signaled
    /\ notify = "stopped"

\* The non-nil entries of the Group at p in the order its own flags ask for.
PolicyOrder(p) ==
    LET n == PolicyLen(p)
        all == [k \in 1..n |->
                   Append(p, IF Sub(ptree, p).ShutdownReversed THEN n + 1 - k ELSE k)]
    IN SelectSeq(all, LAMBDA q : ~PolicyIsNil(q))

\* C34: with nested v2 Groups, at every level: nothing below a Group is
\* stopped before that Group's own Stop is invoked; a Group in sequential
\* mode invokes the Stop of its entries, nested Groups included, one at a
\* time in its own list order (reversed under its own ShutdownReversed), each
\* only after the previous one has returned; a Group in concurrent mode
\* spawns the Stop of all its entries at once and each can be invoked,
\* whatever the mode of the Group around it; a Group's Stop has returned only
\* when the Stops of all its entries have; and no Stop is called twice.
C34_NestedStopPolicies ==
    \A p \in PolicyPaths :
        /\ pnode[p].stopCalls <= 1
        /\ PolicyIsNil(p) => pnode[p].stopCalls = 0 /\ pnode[p].stop = "none"
        /\ PolicyIsGroup(p) =>
              /\ pnode[p].stop \in {"none", "spawned"} =>
                    \A q \in PolicyKids(p) : pnode[q].stop = "none"
              /\ pnode[p].stop \in {"nil", "err"} =>
                    \A q \in PolicyKids(p) :
                        ~PolicyIsNil(q) => pnode[q].stop \in {"nil", "err"}
              /\ Sub(ptree, p).ShutdownSequentially =>
                    \A k \in 1..Len(PolicyOrder(p)) :
                        /\ pnode[PolicyOrder(p)[k]].stop # "spawned"
                        /\ pnode[PolicyOrder(p)[k]].stop # "none" =>
                              \A j \in 1..(k - 1) :
                                  pnode[PolicyOrder(p)[j]].stop \in {"nil", "err"}
              /\ (~Sub(ptree, p).ShutdownSequentially
                     /\ pnode[p].stop \in {"running", "nil", "err"}) =>
                    \A q \in PolicyKids(p) :
                        /\ ~PolicyIsNil(q) => pnode[q].stop # "none"
                        /\ pnode[q].stop = "spawned" => ENABLED PolicyGoStop(q)

\* C34 witness: the parent stops in reverse sequence; its second entry, a
\* runner, has been stopped, and then its first entry, a concurrent Group,
\* has both its runners' Stop calls running at once.
C34_Witness ==
    /\ ptree = PolicyGroupOf(<<PolicyGroupOf(<<Leaf, Leaf>>, FALSE, FALSE), Leaf>>,
                             TRUE, TRUE)
    /\ ppc = "stopping"
    /\ pnode[<<2>>].stop \in {"nil", "err"}
    /\ pnode[<<1>>].stop = "running"
    /\ pnode[<<1, 1>>].stop = "running"
    /\ pnode[<<1, 2>>].stop = "running"

\* Stop of the v1 and v2 API is between deriving the runners' context and
\* its return.
StopPhaseV1V2 == StopApiV1V2 /\ pc \in {"stop_wait", "stop_loop"}

\* C35: in Stop of the v1 and v2 API the runners' context gets its cause
\* once, from whichever event came first.  Derived from a parent that is
\* already done it carries the parent's error and cause; when the parent
\* becomes done while it is live it takes the parent's error and cause; only
\* the deadline passing while the parent is live (at once for a zero timeout)
\* gives it ShutdownTimeoutError; and once done it never changes while the
\* runners are being stopped.  A runner's Stop that returned
\* ShutdownTimeoutError observed that cause.
C35_CauseTellsOrigin ==
    /\ [](StopPhaseV1V2 =>
            /\ stopCtx.made
            /\ stopCtx.cause = ShutdownTimeoutError => stopCtx.err = DeadlineExceeded
            /\ (stopCtx.err # Nil /\ stopCtx.cause # ShutdownTimeoutError) =>
                  Done(ctx) /\ stopCtx.err = ctx.err /\ stopCtx.cause = ctx.cause
            /\ \A i \in Idx : stopOut[i] = ShutdownTimeoutError =>
                  stopCtx.cause = ShutdownTimeoutError)
    /\ [][(StopApiV1V2 /\ StopPhaseV1V2') =>
            /\ (~stopCtx.made /\ Done(ctx)) =>
                  stopCtx'.err = ctx.err /\ stopCtx'.cause = ctx.cause
            /\ (~stopCtx.made /\ ~Done(ctx) /\ stopCtx'.err # Nil) =>
                  g.ShutdownTimeout = 0 /\ stopCtx'.cause = ShutdownTimeoutError
            /\ (stopCtx.made /\ stopCtx.err = Nil /\ stopCtx'.err # Nil) =>
                  IF Done(ctx')
                  THEN stopCtx'.err = ctx'.err /\ stopCtx'.cause = ctx'.cause
                  ELSE stopCtx'.cause = ShutdownTimeoutError
            /\ (stopCtx.made /\ stopCtx.err # Nil) => stopCtx' = stopCtx]_vars

\* C35 witness: the parent context was canceled with a cause of its own
\* before the deadline, and a runner's Stop returned that cause.
C35_Witness ==
    /\ StopPhaseV1V2
    /\ g.ShutdownTimeout > 0
    /\ ctx.cause = CustomCause
    /\ stopCtx.cause = CustomCause
    /\ \E i \in Idx : stopOut[i] = CustomCause

\* C36: in sequential stop mode (v2) the runners' context is derived once
\* per Group.Stop call and no step of the loop replaces it or revives it; so
\* once it is done, the loop still invokes the Stop of every later non-nil
\* runner, each exactly once and each with that done context, and when Stop
\* has returned every non-nil runner's Stop has been called once.
C36_OneDeadlinePerPass ==
    /\ [](SequentialStop =>
            /\ pc \in {"stop_loop", "stop_returned", "run_returned"} => stopCtx.made
            /\ (pc = "stop_loop" /\ Done(stopCtx) /\ ~stopLoop.in
                   /\ stopLoop.i < Len(g.Runners)
                   /\ g.Runners[StopTarget(stopLoop.i)]) =>
                  ENABLED SeqStopInvoke
            /\ pc \in {"stop_returned", "run_returned"} =>
                  \A i \in Idx : Present(i) => stopCalls[i] = 1)
    /\ [][(SequentialStop /\ pc = "stop_loop" /\ pc' = "stop_loop") =>
            /\ stopCtx'.made
            /\ Done(stopCtx) => stopCtx' = stopCtx
            /\ \A i \in Idx : (stop[i] = "none" /\ stop'[i] = "running") =>
                  /\ stopCalls'[i] = 1
                  /\ Done(stopCtx) => Done(stopCtx')]_vars

\* C36 witness: three runners stopped in sequence; the timeout elapsed with
\* the parent context live, the first runner's Stop returned the cause, the
\* second's returned too, and the third's Stop is running under the done
\* context.
C36_Witness ==
    /\ SequentialStop
    /\ entry = "Stop"
    /\ ~g.ShutdownReversed
    /\ g.Runners = <<TRUE, TRUE, TRUE>>
    /\ g.ShutdownTimeout > 0
    /\ ~Done(ctx)
    /\ stopCtx.err = DeadlineExceeded
    /\ stopOrder = <<1, 2>>
    /\ stopOut[1] = ShutdownTimeoutError
    /\ stop[3] = "running"
    /\ stopCalls = <<1, 1, 1>>

\* Run whose start phase was ended by the caller's context being done: the
\* select of the options API took ctx.Done(); in the v1 and v2 API the
\* context was done before any start error or signal and Start has returned.
RunEndedByCtx ==
    /\ entry = "Run"
    /\ IF api = "opt"
       THEN run.trigger = "ctx"
       ELSE first = "ctx" /\ pc \notin {"idle", "start_select", "start_signal"}

\* C37: when the caller's context being done ended Run's start phase, the
\* context Run derives for the runners' Stop calls is done from its creation
\* with the caller's context's error, whatever the stop timeout is; the
\* timeout's timer is never armed; and every Stop is invoked under that done
\* context.
C37_NoGraceAfterCtx ==
    /\ [](RunEndedByCtx =>
            /\ Done(ctx)
            /\ stopCtx.made =>
                  /\ Done(stopCtx)
                  /\ stopCtx.err = ctx.err
                  /\ stopCtx.cause = ctx.cause
                  /\ ~ENABLED StopTimeout
            /\ \A i \in Idx : stop[i] # "none" => stopCtx.made)
    /\ [][RunEndedByCtx =>
            \A i \in Idx : stopCalls'[i] > stopCalls[i] =>
                Done(stopCtx) /\ stopCtx' = stopCtx]_vars

\* C37 witness: Run (options API) with a positive stop timeout acted on the
\* canceled context, and a runner's Stop is running under a context that is
\* done with context.Canceled.
C37_Witness ==
    /\ api = "opt"
    /\ entry = "Run"
    /\ cfg.stopTimeout > 0
    /\ run.trigger = "ctx"
    /\ pc = "stop_range"
    /\ \E i \in Idx : stop[i] = "running" /\ stopCalls[i] = 1
    /\ stopCtx.err = Canceled

\* C38 as stated: the goroutine Run (options API) spawned to call g.Start
\* never stays blocked on handing over the start error: whenever it holds an
\* error to send on startErrCh, Run's select can still receive it.
C38_StartGoroutineEnds ==
    (api = "opt" /\ entry = "Run" /\ go.pc = "send") => ENABLED OptSelectStartErr

\* A Set body has just run for caller c.
SetDone(c) == call[c].pc = "return" /\ call[c].op = "Set"

\* C39: in a Store created with capacity c > 0, whatever Set, Delete and Flush
\* calls the concurrent callers have made, the Store never holds more than c
\* items and Len() never returns more than c; and a Set of a key that was not
\* present while the Store held c items has returned AtCapacityError and left
\* the map exactly as it was.
C39_CapacityBound ==
    newCapacity > 0 =>
        /\ StoreLen <= newCapacity
        /\ \A c \in DOMAIN call :
              /\ (call[c].pc = "return" /\ call[c].op = "Len") => call[c].n <= newCapacity
              /\ ( /\ SetDone(c)
                   /\ call[c].key \notin DOMAIN call[c].before
                   /\ Cardinality(DOMAIN call[c].before) = newCapacity )
                 => (call[c].err = AtCapacityError /\ Items = call[c].before)

\* A Set of a new key was refused in a Store of capacity two that the Set
\* before it had filled, and the two items are still there.
C39_Witness ==
    /\ newCapacity = 2
    /\ \E c \in DOMAIN call :
          /\ SetDone(c)
          /\ call[c].key \notin DOMAIN call[c].before
          /\ Cardinality(DOMAIN call[c].before) = 2
          /\ call[c].err = AtCapacityError
          /\ Items = call[c].before
          /\ call[c].prev.op = "Set"
    /\ StoreLen = 2

\* The Delete or Flush that ran just before caller c's Set body found the
\* Store at capacity and took at least one item out of it.
MadeRoom(c) ==
    /\ call[c].prev.op \in {"Delete", "Flush"}
    /\ capacity > 0
    /\ call[c].prev.len = capacity
    /\ call[c].prev.removed > 0

\* C40: a Store created with capacity zero or a negative capacity never
\* answers a Set with AtCapacityError, however many items it holds; in a Store
\* that holds as many items as its capacity a Set of a key that is present
\* succeeds and replaces the value; and after a Delete or Flush that removed an
\* item from a Store at capacity, the Set of a new key that follows succeeds
\* and stores the value.
C40_NoLimitReplaceAndRoom ==
    \A c \in DOMAIN call :
        SetDone(c) =>
            /\ newCapacity <= 0 =>
                  /\ call[c].err = Nil
                  /\ Items = Assign(call[c].before, call[c].key, call[c].val)
            /\ ( /\ capacity > 0
                 /\ Cardinality(DOMAIN call[c].before) = capacity
                 /\ call[c].key \in DOMAIN call[c].before )
               => /\ call[c].err = Nil
                  /\ Items = Assign(call[c].before, call[c].key, call[c].val)
                  /\ DOMAIN Items = DOMAIN call[c].before
            /\ (MadeRoom(c) /\ call[c].key \notin DOMAIN call[c].before)
               => /\ call[c].err = Nil
                  /\ Items = Assign(call[c].before, call[c].key, call[c].val)

\* In a Store of capacity two that was full, a Delete took an item out and the
\* Set of a new key that followed it succeeded: the Store is full again.
C40_Witness ==
    /\ newCapacity = 2
    /\ StoreLen = 2
    /\ \E c \in DOMAIN call :
          /\ SetDone(c)
          /\ MadeRoom(c)
          /\ call[c].prev.op = "Delete"
          /\ call[c].key \notin DOMAIN call[c].before
          /\ call[c].err = Nil

============================================================================
